---- MODULE Spec2Model ----
(***************************************************************************)
(* A model of the mesh shell's incremental front end: the line lexer       *)
(* (parser/lexer.go) and the parser goroutine that consumes its lexemes    *)
(* over an unbuffered channel and reports to the driver over a second one. *)
(* Strings are sequences of one-character strings.                         *)
(***************************************************************************)
EXTENDS Integers, Sequences, FiniteSets, TLC

\* The total number of input characters a behaviour feeds, each line counting
\* its characters plus one for its line terminator.
MaxInput == 6

\* The characters the driver builds lines from: a plain character, a blank,
\* both quote characters, the backslash, the dollar sign and the pipe.
Chars == {"a", " ", "'", "\"", "\\", "$", "|"}

\* ------------------------------------------------------------------ lexer

digits == {"0", "1", "2", "3", "4", "5", "6", "7", "8", "9"}
lowercase == {"a", "b", "c", "d", "e", "f", "g", "h", "i", "j", "k", "l", "m",
              "n", "o", "p", "q", "r", "s", "t", "u", "v", "w", "x", "y", "z"}
uppercase == {"A", "B", "C", "D", "E", "F", "G", "H", "I", "J", "K", "L", "M",
              "N", "O", "P", "Q", "R", "S", "T", "U", "V", "W", "X", "Y", "Z"}
special == {"|", "$"}
whitespace == {" ", "\t", "\n"}

Lexeme(tok, text) == [tok |-> tok, text |-> text]

\* strings.TrimLeft(line, cutset)
RECURSIVE TrimLeft(_, _)
TrimLeft(line, cutset) ==
    IF line # <<>> /\ Head(line) \in cutset THEN TrimLeft(Tail(line), cutset)
    ELSE line

\* line[from:] with Go's 0-based offset
From(line, from) == SubSeq(line, from + 1, Len(line))

\* line[from:to] with Go's 0-based offsets
Slice(line, from, to) == SubSeq(line, from + 1, to)

\* The loop of decodeString: i is the 0-based index of the rune being read.
RECURSIVE decodeRunes(_, _, _, _, _, _)
\* A variant of the loop that keeps the backslash in front of an escaped rune.
decodeRunesKeepsBackslash(line, delimiter, i, escaped, start, text) ==
    IF i >= Len(line)
    THEN IF escaped
         THEN [text |-> text, size |-> Len(line) - 1]
         ELSE LET full == text \o From(line, start)
              IN  [text |-> IF delimiter = {"'"} \/ delimiter = {"\""}
                            THEN Append(full, "\n") ELSE full,
                   size |-> Len(line)]
    ELSE LET r == line[i + 1]
         IN  IF escaped
             THEN decodeRunes(line, delimiter, i + 1, FALSE, i + 1,
                              text \o <<"\\", r>>)
             ELSE IF r = "\\"
             THEN decodeRunes(line, delimiter, i + 1, TRUE, start,
                              text \o Slice(line, start, i))
             ELSE IF r \in delimiter
             THEN [text |-> text \o Slice(line, start, i), size |-> i]
             ELSE decodeRunes(line, delimiter, i + 1, FALSE, start, text)

decodeRunes(line, delimiter, i, escaped, start, text) ==
    IF i >= Len(line)
    THEN IF escaped
         THEN [text |-> text, size |-> Len(line) - 1]
         ELSE LET full == text \o From(line, start)
              IN  [text |-> IF delimiter = {"'"} \/ delimiter = {"\""}
                            THEN Append(full, "\n") ELSE full,
                   size |-> Len(line)]
    ELSE LET r == line[i + 1]
         IN  IF escaped
             THEN decodeRunes(line, delimiter, i + 1, FALSE, i + 1, Append(text, r))
             ELSE IF r = "\\"
             THEN decodeRunes(line, delimiter, i + 1, TRUE, start,
                              text \o Slice(line, start, i))
             ELSE IF r \in delimiter
             THEN [text |-> text \o Slice(line, start, i), size |-> i]
             ELSE decodeRunes(line, delimiter, i + 1, FALSE, start, text)

decodeString(line, delimiter) == decodeRunes(line, delimiter, 0, FALSE, 0, <<>>)

\* strings.IndexFunc(line, r \notin set): the 0-based index of the first rune
\* outside set, or -1.
RECURSIVE IndexNotIn(_, _, _)
IndexNotIn(line, set, i) ==
    IF i >= Len(line) THEN -1
    ELSE IF line[i + 1] \notin set THEN i
    ELSE IndexNotIn(line, set, i + 1)

\* The state functions. l is the sequence of lexemes sent on l.lexemes so far
\* by this call of lex; the result is the whole sequence and the state
\* function the call returns.
RECURSIVE lexStart(_, _)
RECURSIVE lexIdentifier(_, _)
RECURSIVE quoted(_, _, _, _)
RECURSIVE lexUnquoted(_, _)

lexSingleQuoted(l, line) == quoted(l, line, "'", "lexSingleQuoted")

lexDoubleQuoted(l, line) == quoted(l, line, "\"", "lexDoubleQuoted")

lexStart(l, line0) ==
    LET right == TrimLeft(line0, whitespace)
        left  == Slice(line0, 0, Len(line0) - Len(right))
        l1    == IF left # <<>> THEN Append(l, Lexeme("Whitespace", left)) ELSE l
        line  == right
    IN  IF line = <<>>
        THEN [lexemes |-> Append(l1, Lexeme("Newline", line)), state |-> "lexStart"]
        ELSE IF line = <<"\\">>
        THEN [lexemes |-> Append(l1, Lexeme("EscapedNewline", line)),
              state |-> "lexStart"]
        ELSE LET r == Head(line)
             IN  CASE r = "$" ->
                        lexIdentifier(Append(l1, Lexeme("Dollar", <<r>>)), Tail(line))
                   [] r = "|" ->
                        lexStart(Append(l1, Lexeme("Pipe", <<r>>)), Tail(line))
                   [] r = "~" ->
                        lexStart(Append(l1, Lexeme("Tilde", <<r>>)), Tail(line))
                   [] r = "'" -> lexSingleQuoted(l1, Tail(line))
                   [] r = "\"" -> lexDoubleQuoted(l1, Tail(line))
                   [] OTHER -> lexUnquoted(l1, line)

\* A variant of lexIdentifier in which a digit may start the identifier.
lexIdentifierFromDigit(l, line) ==
    IF line = <<>> \/ Head(line) \notin (digits \cup lowercase \cup uppercase \cup {"_"})
    THEN lexStart(l, line)
    ELSE LET index == IndexNotIn(Tail(line),
                                 digits \cup lowercase \cup uppercase \cup {"_"}, 0)
         IN  IF index = -1
             THEN lexStart(Append(l, Lexeme("Identifier", line)), <<>>)
             ELSE lexStart(Append(l, Lexeme("Identifier", Slice(line, 0, 1 + index))),
                           From(line, 1 + index))

lexIdentifier(l, line) ==
    IF line = <<>> \/ Head(line) \notin (lowercase \cup uppercase \cup {"_"})
    THEN lexStart(l, line)
    ELSE LET index == IndexNotIn(Tail(line),
                                 digits \cup lowercase \cup uppercase \cup {"_"}, 0)
         IN  IF index = -1
             THEN lexStart(Append(l, Lexeme("Identifier", line)), <<>>)
             ELSE lexStart(Append(l, Lexeme("Identifier", Slice(line, 0, 1 + index))),
                           From(line, 1 + index))

\* A variant of quoted that sends no Newline after a SubString.
quotedWithoutNewline(l, line0, quote, next) ==
    LET d    == decodeString(line0, {quote})
        line == From(line0, d.size)
    IN  IF line = <<>> \/ Head(line) # quote
        THEN [lexemes |-> Append(l, Lexeme("SubString", d.text)), state |-> next]
        ELSE lexStart(Append(l, Lexeme("String", d.text)), Tail(line))

\* A variant of quoted that returns the start state after a SubString.
quotedForgetsMode(l, line0, quote, next) ==
    LET d    == decodeString(line0, {quote})
        line == From(line0, d.size)
    IN  IF line = <<>> \/ Head(line) # quote
        THEN [lexemes |-> l \o <<Lexeme("SubString", d.text), Lexeme("Newline", line)>>,
              state |-> "lexStart"]
        ELSE lexStart(Append(l, Lexeme("String", d.text)), Tail(line))

quoted(l, line0, quote, next) ==
    LET d    == decodeString(line0, {quote})
        line == From(line0, d.size)
    IN  IF line = <<>> \/ Head(line) # quote
        THEN [lexemes |-> l \o <<Lexeme("SubString", d.text), Lexeme("Newline", line)>>,
              state |-> next]
        ELSE lexStart(Append(l, Lexeme("String", d.text)), Tail(line))

\* A variant of lexUnquoted that records the line break in the text, as quoted
\* does.
lexUnquotedWithNewline(l, line0) ==
    LET d    == decodeString(line0, special \cup whitespace)
        line == From(line0, d.size)
    IN  IF line = <<"\\">>
        THEN [lexemes |-> l \o <<Lexeme("SubString", Append(d.text, "\n")),
                                 Lexeme("Newline", line)>>,
              state |-> "lexUnquoted"]
        ELSE lexStart(Append(l, Lexeme("String", d.text)), line)

\* A variant of lexUnquoted that returns the start state after a SubString.
lexUnquotedForgetsMode(l, line0) ==
    LET d    == decodeString(line0, special \cup whitespace)
        line == From(line0, d.size)
    IN  IF line = <<"\\">>
        THEN [lexemes |-> l \o <<Lexeme("SubString", d.text), Lexeme("Newline", line)>>,
              state |-> "lexStart"]
        ELSE lexStart(Append(l, Lexeme("String", d.text)), line)

lexUnquoted(l, line0) ==
    LET d    == decodeString(line0, special \cup whitespace)
        line == From(line0, d.size)
    IN  IF line = <<"\\">>
        THEN [lexemes |-> l \o <<Lexeme("SubString", d.text), Lexeme("Newline", line)>>,
              state |-> "lexUnquoted"]
        ELSE lexStart(Append(l, Lexeme("String", d.text)), line)

\* lexer.lex: run the saved state function on the line.
lex(state, line) ==
    CASE state = "lexStart" -> lexStart(<<>>, line)
      [] state = "lexSingleQuoted" -> lexSingleQuoted(<<>>, line)
      [] state = "lexDoubleQuoted" -> lexDoubleQuoted(<<>>, line)
      [] state = "lexUnquoted" -> lexUnquoted(<<>>, line)

\* --------------------------------------------------------------- the tree

Nil == [type |-> "Nil"]

StmtList(stmts) == [type |-> "StmtList", Stmts |-> stmts]

Pipeline(stmts) == [type |-> "Pipeline", Stmts |-> stmts]

Cmd(argv) == [type |-> "Cmd", Argv |-> argv]

Word(exprs) == [type |-> "Word", SubExprs |-> exprs]

String(text) == [type |-> "String", Text |-> text]

Tilde(text) == [type |-> "Tilde", Text |-> text]

Var(identifier) == [type |-> "Var", Identifier |-> identifier]

parserError(msg) == [type |-> "parserError", msg |-> msg]

\* ------------------------------------------------------------------ state

VARIABLES
    lexState,   \* lexer.state: the state function the next lex call runs
    locked,     \* Parser.locked
    lock,       \* Parser.lock is held
    stmt,       \* Parser.stmt
    err,        \* Parser.err
    curr,       \* Parser.curr: the lookahead lexeme, or Nil
    gs,         \* the live parseStmtList goroutines: position and locals
    dpc,        \* the driver's position: "idle", in "lex", or in "wait" on done
    out,        \* what the running lex call sends, and the state it returns
    sent,       \* how many lexemes of out the lexer has sent
    ret,        \* what the last Parse call returned
    res,        \* what the last Result call did, since the last Parse call
    lines,      \* the lines fed since the statement in progress was started
    mode0,      \* the lexer's state function when that statement was started
    budget,     \* input characters left to feed
    \* the session loop (repl) and the interpreter's VisitStmtList
    rpc,        \* repl's position: "read", in "visit", "visited", or "returned"
    nread,      \* how many lines readLine has returned
    rstmt,      \* repl's stmt: the tree Parse returned for the current line
    sno,        \* VisitStmtList: the index of the statement to visit next
    ran,        \* VisitStmtList: the indexes of the statements it has visited
    vstatus,    \* VisitStmtList's status
    verr,       \* VisitStmtList's err
    status,     \* repl's status
    stderr,     \* what repl has written to std.err, one message per entry
    \* the interpreter's VisitPipeline
    ppc,        \* VisitPipeline's position: "idle", "loop", "wait" or "returned"
    pstmts,     \* p.Stmts
    index,      \* the loop's index
    pipes,      \* the pipes os.Pipe has returned, with the state of their ends
    subshells,  \* the stage goroutines started: streams and position
    statuses,   \* statuses
    errs,       \* errs
    wg,         \* the WaitGroup's counter
    pret,       \* what VisitPipeline returned
    \* the process: its environment and working directory, and the builtins
    env,        \* the environment: the value of each name, or Unset
    cwd,        \* the working directory, as the names on the way from the root
    cdn,        \* how many times cd has been called
    cdlast,     \* the last cd call: its args, its error, and PWD, OLDPWD before,
                \* and in before the same of the call before it
    cds,        \* the cd calls in progress in the stages of a pipeline
    wres,       \* the last VisitWord call: the word and the text returned
    \* the kernel's pipes and the processes of the stages
    fill,       \* the bytes buffered in each pipe that holds any
    written,    \* the bytes each stage's process has written so far
    \* the scanner of a script
    noninteractive, \* the noninteractive: its reader r and its scanner s (or
                \* nil), and in r0 the reader it was made with
    reads       \* what the readLine calls have returned, in order

frontVars == <<lexState, locked, lock, stmt, err, curr, gs, dpc, out, sent, ret, res,
               lines, mode0, budget>>

replVars == <<rpc, nread, rstmt, sno, ran, vstatus, verr, status, stderr>>

pipeVars == <<ppc, pstmts, index, pipes, subshells, statuses, errs, wg, pret>>

procVars == <<env, cwd, cdn, cdlast, cds, wres, fill, written>>

scanVars == <<noninteractive, reads>>

shellVars == <<replVars, pipeVars, procVars, scanVars>>

vars == <<frontVars, shellVars>>

parserVars == <<locked, lock, stmt, err, curr, gs>>

driverVars == <<lexState, dpc, out, sent, ret, res, lines, mode0, budget>>

\* The value of a name that is not in the environment; every value that is
\* set is a sequence of characters.
Unset == <<"unset">>

\* The names of the environment the session reads or writes.
EnvNames == {<<"P", "W", "D">>, <<"O", "L", "D", "P", "W", "D">>, <<"a">>, <<"b">>}

\* ret before Parse has returned, and once it has returned b.
NoRet == <<>>

Return(b) == <<b>>

NoRes == [kind |-> "none"]

Panic == [kind |-> "panic"]

\* A goroutine that `go p.parseStmtList()` has started and that has not run yet.
NewG == [pc |-> "start", back |-> "", stmts |-> <<>>, pipe |-> <<>>, argv |-> <<>>,
         exprs |-> <<>>, str |-> <<>>, l |-> <<>>]

RECURSIVE SeqsUpTo(_)
SeqsUpTo(n) ==
    IF n = 0 THEN {<<>>}
    ELSE LET shorter == SeqsUpTo(n - 1)
         IN  shorter \cup {Append(s, c) : s \in {t \in shorter : Len(t) = n - 1},
                                          c \in Chars}

AllLines == SeqsUpTo(MaxInput - 1)

\* The lines of each length, indexed by length.
LinesOfLen == [n \in 0..(MaxInput - 1) |-> {line \in AllLines : Len(line) = n}]

Init ==
    /\ lexState = "lexStart"
    /\ locked = FALSE
    /\ lock = FALSE
    /\ stmt = Nil
    /\ err = Nil
    /\ curr = Nil
    /\ gs = <<>>
    /\ dpc = "idle"
    /\ out = [lexemes |-> <<>>, state |-> "lexStart"]
    /\ sent = 0
    /\ ret = NoRet
    /\ res = NoRes
    /\ lines = <<>>
    /\ mode0 = "lexStart"
    /\ budget = MaxInput
    /\ rpc = "read"
    /\ nread = 0
    /\ rstmt = Nil
    /\ sno = 0
    /\ ran = <<>>
    /\ vstatus = 0
    /\ verr = Nil
    /\ status = 0
    /\ stderr = <<>>
    /\ ppc = "idle"
    /\ pstmts = <<>>
    /\ index = 0
    /\ pipes = <<>>
    /\ subshells = <<>>
    /\ statuses = <<>>
    /\ errs = <<>>
    /\ wg = 0
    /\ pret = <<>>
    /\ env = [name \in EnvNames |-> IF name = <<"P", "W", "D">> THEN <<"/">> ELSE Unset]
    /\ cwd = <<>>
    /\ cdn = 0
    /\ cdlast = Nil
    /\ cds = <<>>
    /\ wres = Nil
    /\ fill = <<>>
    /\ written = <<>>
    /\ noninteractive = Nil
    /\ reads = <<>>

\* ----------------------------------------------------------------- driver

\* Parser.Parse up to the first send of lex: start a goroutine unless a
\* statement is in progress, and run the lexer's state function on the line.
Parse(line) ==
    /\ dpc = "idle"
    /\ Len(line) + 1 <= budget
    /\ gs' = IF ~locked THEN Append(gs, NewG) ELSE gs
    /\ out' = lex(lexState, line)
    /\ sent' = 0
    /\ dpc' = "lex"
    /\ ret' = NoRet
    /\ res' = NoRes
    /\ lines' = IF ~locked THEN <<line>> ELSE Append(lines, line)
    /\ mode0' = IF ~locked THEN lexState ELSE mode0
    /\ budget' = budget - (Len(line) + 1)
    /\ UNCHANGED <<lexState, locked, lock, stmt, err, curr>>
    /\ UNCHANGED shellVars

\* A variant of LexReturn for a channel with a buffer: lex returns while
\* lexemes it has sent are still to be received.
LexReturnBuffered ==
    /\ dpc = "lex"
    /\ lexState' = out.state
    /\ dpc' = "wait"
    /\ UNCHANGED <<out, sent, ret, res, lines, mode0, budget>>
    /\ UNCHANGED parserVars
    /\ UNCHANGED shellVars

\* lexer.lex returns: every lexeme of the line has been received; the state
\* function it returned is saved, and Parse goes on to receive from done.
LexReturn ==
    /\ dpc = "lex"
    /\ sent = Len(out.lexemes)
    /\ lexState' = out.state
    /\ dpc' = "wait"
    /\ UNCHANGED <<out, sent, ret, res, lines, mode0, budget>>
    /\ UNCHANGED parserVars
    /\ UNCHANGED shellVars

\* A variant of Result without the check of p.locked.
ResultUnchecked ==
    /\ dpc = "idle"
    /\ res = NoRes
    /\ res' = [kind |-> "ok", stmt |-> stmt, err |-> err]
    /\ UNCHANGED <<lexState, dpc, out, sent, ret, lines, mode0, budget>>
    /\ UNCHANGED <<locked, lock, stmt, err, curr, gs>>
    /\ UNCHANGED shellVars

\* Parser.Result
Result ==
    /\ dpc = "idle"
    /\ res = NoRes
    /\ res' = IF locked THEN Panic ELSE [kind |-> "ok", stmt |-> stmt, err |-> err]
    /\ UNCHANGED <<lexState, dpc, out, sent, ret, lines, mode0, budget>>
    /\ UNCHANGED parserVars
    /\ UNCHANGED shellVars

\* ----------------------------------------------------------------- parser

Set(i, g) == gs' = [gs EXCEPT ![i] = g]

RemoveAt(s, i) == SubSeq(s, 1, i - 1) \o SubSeq(s, i + 1, Len(s))

PeekPcs == {"parseStmtList", "parseStmt", "parsePipeline", "parseCmd",
            "parseWord", "parseVar", "recover"}

TrimPcs == {"parseStmtList", "parseStmt", "parsePipeline", "parseCmd"}

\* The goroutine's locals after a panic has unwound its stack.
Unwound(g, pc) == [NewG EXCEPT !.pc = pc]

\* A variant of Lock that does not wait for the mutex.
LockNoWait(i) ==
    /\ gs[i].pc = "start"
    /\ lock' = TRUE
    /\ gs' = [gs EXCEPT ![i] = [gs[i] EXCEPT !.pc = "locked"]]
    /\ UNCHANGED <<locked, stmt, err, curr>>
    /\ UNCHANGED driverVars
    /\ UNCHANGED shellVars

\* p.lock.Lock()
Lock(i) ==
    /\ gs[i].pc = "start"
    /\ ~lock
    /\ lock' = TRUE
    /\ Set(i, [gs[i] EXCEPT !.pc = "locked"])
    /\ UNCHANGED <<locked, stmt, err, curr>>
    /\ UNCHANGED driverVars
    /\ UNCHANGED shellVars

\* A variant of Reset that leaves p.err as it is.
ResetKeepsErr(i) ==
    /\ gs[i].pc = "locked"
    /\ locked' = TRUE
    /\ stmt' = Nil
    /\ curr' = Nil
    /\ gs' = [gs EXCEPT ![i] = [gs[i] EXCEPT !.pc = "parseStmtList"]]
    /\ UNCHANGED <<lock, err>>
    /\ UNCHANGED driverVars
    /\ UNCHANGED shellVars

\* p.locked = true; p.stmt, p.err, p.curr = nil, nil, nil
Reset(i) ==
    /\ gs[i].pc = "locked"
    /\ locked' = TRUE
    /\ stmt' = Nil
    /\ err' = Nil
    /\ curr' = Nil
    /\ Set(i, [gs[i] EXCEPT !.pc = "parseStmtList"])
    /\ UNCHANGED lock
    /\ UNCHANGED driverVars
    /\ UNCHANGED shellVars

\* Parser.peek with no lookahead: the rendezvous on lex.lexemes with the
\* lexer's next send.
Recv(i) ==
    /\ gs[i].pc \in PeekPcs
    /\ curr = Nil
    /\ dpc = "lex"
    /\ sent < Len(out.lexemes)
    /\ curr' = out.lexemes[sent + 1]
    /\ sent' = sent + 1
    /\ UNCHANGED <<locked, lock, stmt, err, gs>>
    /\ UNCHANGED <<lexState, dpc, out, ret, res, lines, mode0, budget>>
    /\ UNCHANGED shellVars

\* Parser.trim on a lexeme it consumes: Whitespace is accepted; an
\* EscapedNewline is accepted after false has been sent on done.
Trim(i) ==
    /\ gs[i].pc \in TrimPcs
    /\ curr # Nil
    /\ curr.tok \in {"EscapedNewline", "Whitespace"}
    /\ IF curr.tok = "EscapedNewline"
       THEN /\ Set(i, [gs[i] EXCEPT !.pc = "sendFalse", !.back = gs[i].pc])
            /\ UNCHANGED curr
       ELSE /\ curr' = Nil
            /\ UNCHANGED gs
    /\ UNCHANGED <<locked, lock, stmt, err>>
    /\ UNCHANGED driverVars
    /\ UNCHANGED shellVars

\* p.done <- false, received by Parse, and the accept that follows it.
SendFalse(i) ==
    /\ gs[i].pc = "sendFalse"
    /\ dpc = "wait"
    /\ ret' = Return(FALSE)
    /\ dpc' = "idle"
    /\ curr' = Nil
    /\ Set(i, [gs[i] EXCEPT !.pc = gs[i].back, !.back = ""])
    /\ UNCHANGED <<locked, lock, stmt, err>>
    /\ UNCHANGED <<lexState, out, sent, res, lines, mode0, budget>>
    /\ UNCHANGED shellVars

Trimmed(i, pc) ==
    /\ gs[i].pc = pc
    /\ curr # Nil
    /\ curr.tok \notin {"EscapedNewline", "Whitespace"}

\* The loop of parseStmtList on the lexeme trim returns.
ParseStmtList(i) ==
    /\ Trimmed(i, "parseStmtList")
    /\ CASE curr.tok = "Newline" ->
              /\ curr' = Nil
              /\ stmt' = StmtList(gs[i].stmts)
              /\ Set(i, [gs[i] EXCEPT !.pc = "deferred", !.stmts = <<>>])
         [] curr.tok = "Semicolon" ->
              /\ curr' = Nil
              /\ UNCHANGED <<stmt, gs>>
         [] OTHER ->
              /\ Set(i, [gs[i] EXCEPT !.pc = "parseStmt"])
              /\ UNCHANGED <<stmt, curr>>
    /\ UNCHANGED <<locked, lock, err>>
    /\ UNCHANGED driverVars
    /\ UNCHANGED shellVars

\* parseStmt; a panic sets p.err in the deferred function of parseStmtList.
ParseStmt(i) ==
    /\ Trimmed(i, "parseStmt")
    /\ CASE curr.tok = "Dollar" ->
              /\ err' = parserError("assignment stmt not yet implemented")
              /\ Set(i, Unwound(gs[i], "recover"))
         [] curr.tok \in {"String", "SubString", "Tilde"} ->
              /\ Set(i, [gs[i] EXCEPT !.pc = "parseCmd"])
              /\ UNCHANGED err
         [] curr.tok \in {"Semicolon", "Newline"} ->
              /\ Set(i, [gs[i] EXCEPT !.pc = "parseStmtList",
                                      !.stmts = Append(@, Cmd(<<>>))])
              /\ UNCHANGED err
         [] OTHER ->
              /\ err' = parserError(<<"unexpected token", curr>>)
              /\ Set(i, Unwound(gs[i], "recover"))
    /\ UNCHANGED <<locked, lock, stmt, curr>>
    /\ UNCHANGED driverVars
    /\ UNCHANGED shellVars

\* The loop of parsePipeline, after its first parseCmd.
ParsePipeline(i) ==
    /\ Trimmed(i, "parsePipeline")
    /\ CASE curr.tok = "Pipe" ->
              /\ curr' = Nil
              /\ UNCHANGED gs
         [] curr.tok \in {"Semicolon", "Newline"} ->
              /\ Set(i, [gs[i] EXCEPT !.pc = "parseStmtList",
                                      !.stmts = Append(@, Pipeline(gs[i].pipe)),
                                      !.pipe = <<>>])
              /\ UNCHANGED curr
         [] OTHER ->
              /\ Set(i, [gs[i] EXCEPT !.pc = "parseCmd"])
              /\ UNCHANGED curr
    /\ UNCHANGED <<locked, lock, stmt, err>>
    /\ UNCHANGED driverVars
    /\ UNCHANGED shellVars

\* The loop of parseCmd; its result is appended to the pipeline's stmts.
ParseCmd(i) ==
    /\ Trimmed(i, "parseCmd")
    /\ IF curr.tok \in {"String", "SubString", "Dollar", "Tilde"}
       THEN Set(i, [gs[i] EXCEPT !.pc = "parseWord"])
       ELSE Set(i, [gs[i] EXCEPT !.pc = "parsePipeline",
                                 !.pipe = Append(@, Cmd(gs[i].argv)),
                                 !.argv = <<>>])
    /\ UNCHANGED <<locked, lock, stmt, err, curr>>
    /\ UNCHANGED driverVars
    /\ UNCHANGED shellVars

\* A variant of ReturnWord that puts the Word in front of the argv.
ReturnWordInFront(g) ==
    [g EXCEPT !.pc = "parseCmd", !.argv = <<Word(g.exprs)>> \o @,
              !.exprs = <<>>, !.str = <<>>, !.l = <<>>]

\* parseWord returns: its Word is appended to the argv of parseCmd.
ReturnWord(g) ==
    [g EXCEPT !.pc = "parseCmd", !.argv = Append(@, Word(g.exprs)),
              !.exprs = <<>>, !.str = <<>>, !.l = <<>>]

\* The loop of parseWord on the lexeme peek returns.
ParseWord(i) ==
    /\ gs[i].pc = "parseWord"
    /\ curr # Nil
    /\ CASE curr.tok = "Newline" ->
              /\ IF gs[i].str # <<>>
                 THEN Set(i, [gs[i] EXCEPT !.pc = "sendFalse", !.back = "parseWord"])
                 ELSE Set(i, ReturnWord(gs[i]))
              /\ UNCHANGED <<curr, err>>
         [] curr.tok = "String" ->
              /\ Set(i, [gs[i] EXCEPT
                           !.exprs = Append(@, String(gs[i].str \o curr.text)),
                           !.str = <<>>])
              /\ curr' = Nil
              /\ UNCHANGED err
         [] curr.tok = "SubString" ->
              /\ Set(i, [gs[i] EXCEPT !.str = @ \o curr.text])
              /\ curr' = Nil
              /\ UNCHANGED err
         [] curr.tok = "Dollar" ->
              /\ Set(i, [gs[i] EXCEPT !.pc = "parseVar", !.l = curr.text])
              /\ curr' = Nil
              /\ UNCHANGED err
         [] curr.tok = "Tilde" ->
              /\ Set(i, [gs[i] EXCEPT !.exprs = Append(@, Tilde(curr.text))])
              /\ curr' = Nil
              /\ UNCHANGED err
         [] OTHER ->
              IF gs[i].str # <<>>
              THEN /\ err' = parserError(<<"parser: unexpected token", curr>>)
                   /\ Set(i, Unwound(gs[i], "recover"))
                   /\ UNCHANGED curr
              ELSE /\ Set(i, ReturnWord(gs[i]))
                   /\ UNCHANGED <<curr, err>>
    /\ UNCHANGED <<locked, lock, stmt>>
    /\ UNCHANGED driverVars
    /\ UNCHANGED shellVars

\* parseVar, and the append of parseWord to exprs on its return.
ParseVar(i) ==
    /\ gs[i].pc = "parseVar"
    /\ curr # Nil
    /\ IF curr.tok = "Identifier"
       THEN /\ Set(i, [gs[i] EXCEPT !.pc = "parseWord",
                                    !.exprs = Append(@, Var(curr.text))])
            /\ curr' = Nil
       ELSE /\ Set(i, [gs[i] EXCEPT !.pc = "parseWord",
                                    !.exprs = Append(@, String(gs[i].l))])
            /\ UNCHANGED curr
    /\ UNCHANGED <<locked, lock, stmt, err>>
    /\ UNCHANGED driverVars
    /\ UNCHANGED shellVars

\* A variant of DrainStops: the drain loop stops at a Newline only.
DrainStopsAtNewline == {"Newline"}

\* The lexemes at which the drain loop of the deferred function stops.
DrainStops == {"Newline", "EscapedNewline"}

\* A variant of Recover that accepts one lexeme and stops.
RecoverOneLexeme(i) ==
    /\ gs[i].pc = "recover"
    /\ curr # Nil
    /\ curr' = Nil
    /\ gs' = [gs EXCEPT ![i] = [gs[i] EXCEPT !.pc = "deferred"]]
    /\ UNCHANGED <<locked, lock, stmt, err>>
    /\ UNCHANGED driverVars
    /\ UNCHANGED shellVars

\* The deferred function of parseStmtList after a parserError: accept the
\* lexemes up to and including the one that ends the line.
Recover(i) ==
    /\ gs[i].pc = "recover"
    /\ curr # Nil
    /\ curr' = Nil
    /\ IF curr.tok \in DrainStops
       THEN Set(i, [gs[i] EXCEPT !.pc = "deferred"])
       ELSE UNCHANGED gs
    /\ UNCHANGED <<locked, lock, stmt, err>>
    /\ UNCHANGED driverVars
    /\ UNCHANGED shellVars

\* The end of the deferred function: p.locked = false, ready to send true.
Deferred(i) ==
    /\ gs[i].pc = "deferred"
    /\ locked' = FALSE
    /\ Set(i, [gs[i] EXCEPT !.pc = "sendTrue"])
    /\ UNCHANGED <<lock, stmt, err, curr>>
    /\ UNCHANGED driverVars
    /\ UNCHANGED shellVars

\* p.done <- true, received by Parse.
SendTrue(i) ==
    /\ gs[i].pc = "sendTrue"
    /\ dpc = "wait"
    /\ ret' = Return(TRUE)
    /\ dpc' = "idle"
    /\ Set(i, [gs[i] EXCEPT !.pc = "unlock"])
    /\ UNCHANGED <<locked, lock, stmt, err, curr>>
    /\ UNCHANGED <<lexState, out, sent, res, lines, mode0, budget>>
    /\ UNCHANGED shellVars

\* p.lock.Unlock(), and the goroutine ends.
Unlock(i) ==
    /\ gs[i].pc = "unlock"
    /\ lock' = FALSE
    /\ gs' = RemoveAt(gs, i)
    /\ UNCHANGED <<locked, stmt, err, curr>>
    /\ UNCHANGED driverVars
    /\ UNCHANGED shellVars

\* ---------------------------------------------------------- specification

Goroutine ==
    \E i \in DOMAIN gs :
        \/ Lock(i)
        \/ Reset(i)
        \/ Recv(i)
        \/ Trim(i)
        \/ SendFalse(i)
        \/ ParseStmtList(i)
        \/ ParseStmt(i)
        \/ ParsePipeline(i)
        \/ ParseCmd(i)
        \/ ParseWord(i)
        \/ ParseVar(i)
        \/ Recover(i)
        \/ Deferred(i)
        \/ SendTrue(i)
        \/ Unlock(i)

Next ==
    \/ /\ dpc = "idle"
       /\ \E n \in 0..(budget - 1) : \E line \in LinesOfLen[n] : Parse(line)
    \/ LexReturn
    \/ Result
    \/ Goroutine

Spec == Init /\ [][Next]_vars

\* The goroutines run whenever they can, and lex returns once its last
\* lexeme has been received; the driver is free to stop calling.
FairSpec == Spec /\ WF_vars(Goroutine) /\ WF_vars(LexReturn)

\* ------------------------------------------------------------ interpreter

\* os.UserHomeDir() of the session
HomeDir == <<"/", "h">>

\* os.Getenv(name): the value of name, or the empty string when it is unset.
Getenv(name) == IF name \in EnvNames /\ env[name] # Unset THEN env[name] ELSE <<>>

VisitString(s) == s.Text

VisitTilde(t) == HomeDir

VisitVar(v) == Getenv(v.Identifier)

VisitExpr(e) ==
    CASE e.type = "String" -> VisitString(e)
      [] e.type = "Tilde" -> VisitTilde(e)
      [] e.type = "Var" -> VisitVar(e)

RECURSIVE Concat(_)
Concat(ss) == IF ss = <<>> THEN <<>> ELSE Head(ss) \o Concat(Tail(ss))

RECURSIVE ConcatSpaced(_)
ConcatSpaced(ss) ==
    IF ss = <<>> THEN <<>>
    ELSE IF Len(ss) = 1 THEN Head(ss)
    ELSE Head(ss) \o <<" ">> \o ConcatSpaced(Tail(ss))

\* A variant of VisitWord that puts a blank between the sub-expressions.
VisitWordSpaced(w) ==
    ConcatSpaced([k \in 1..Len(w.SubExprs) |-> VisitExpr(w.SubExprs[k])])

VisitWord(w) == Concat([k \in 1..Len(w.SubExprs) |-> VisitExpr(w.SubExprs[k])])

\* The argument vector VisitCmd builds from the words of a command.
CmdArgv(c) == [k \in 1..Len(c.Argv) |-> VisitWord(c.Argv[k])]

\* ------------------------------------------------------------------ claims

\* Parse has returned and has not been called again.
Returned == dpc = "idle" /\ ret # NoRet

\* The last lexeme the lexer sent for the line fed last.
LastLexeme == out.lexemes[Len(out.lexemes)]

\* The line fed last leaves the statement incomplete: it ends inside a quoted
\* string, in an unquoted word with a trailing backslash, or with an escaped
\* newline.
LineIncomplete ==
    \/ lexState \in {"lexSingleQuoted", "lexDoubleQuoted", "lexUnquoted"}
    \/ LastLexeme.tok = "EscapedNewline"

\* C1: when no parse error was raised, Parse returns false exactly for the
\* lines that leave the statement incomplete and true on the line whose
\* unescaped Newline completes it, and a StmtList exists only after that
\* Newline has been consumed.
C1_ParseReturnsFalseUntilComplete ==
    /\ (Returned /\ err = Nil) => (ret = <<FALSE>> <=> LineIncomplete)
    /\ \A i \in DOMAIN gs :
          (gs[i].pc = "deferred" /\ stmt # Nil) =>
              /\ LastLexeme.tok = "Newline"
              /\ sent = Len(out.lexemes)
              /\ curr = Nil

\* C2: every Parse call returns, and when it has returned no goroutine is
\* left with a second completion signal for the line.
C2_ParseReturns ==
    /\ [](dpc = "idle" => \A i \in DOMAIN gs : gs[i].pc \notin {"sendFalse", "sendTrue"})
    /\ (dpc # "idle") ~> (dpc = "idle")

\* A Parse call has returned false and a later one has returned true.
C2_Witness == Returned /\ ret = <<TRUE>> /\ Len(lines) > 1

\* C3: after Parse has returned true, Result returns either a tree or an
\* error, never both and never neither.
C3_TreeXorError ==
    (ret = <<TRUE>> /\ res.kind = "ok") => ((res.stmt # Nil) # (res.err # Nil))

\* Result has returned a parse error and no tree.
C3_Witness == ret = <<TRUE>> /\ res.kind = "ok" /\ res.err # Nil /\ res.stmt = Nil

\* C4: Result panics when the last Parse call returned false, and returns
\* normally only when no statement is in progress.
C4_ResultPanicsWhileLocked ==
    /\ (ret = <<FALSE>> /\ res # NoRes) => res = Panic
    /\ res.kind = "ok" =>
          /\ ~locked
          /\ ret # <<FALSE>>
          /\ \A i \in DOMAIN gs : gs[i].pc = "unlock"

\* Result was called after Parse returned false, and panicked.
C4_Witness == ret = <<FALSE>> /\ res = Panic

\* C5: after a parse error every lexeme of the current line has been
\* consumed, up to and including the Newline or EscapedNewline that ends it;
\* that Parse call returns true, Result returns the error and no tree, and
\* the next Parse call starts the goroutine of a new statement.
C5_RecoveryDrainsLine ==
    /\ [](\A i \in DOMAIN gs :
            (gs[i].pc \in {"deferred", "sendTrue"} /\ err # Nil) =>
                /\ sent = Len(out.lexemes)
                /\ curr = Nil
                /\ LastLexeme.tok \in {"Newline", "EscapedNewline"}
                /\ stmt = Nil)
    /\ []((Returned /\ err # Nil) => (ret = <<TRUE>> /\ ~locked))
    /\ []((res.kind = "ok" /\ err # Nil) => (res.err = err /\ res.stmt = Nil))
    /\ [][(Returned /\ err # Nil /\ dpc' = "lex") =>
             /\ Len(lines') = 1
             /\ Len(gs') = Len(gs) + 1
             /\ gs'[Len(gs')] = NewG]_vars

\* A parse error was raised on a line of three lexemes or more, Parse has
\* returned and Result has returned the error.
C5_Witness ==
    /\ Returned
    /\ res.kind = "ok"
    /\ res.err # Nil
    /\ Len(out.lexemes) >= 3

\* C5 as first stated: the lexeme at which the discarding ends is the line's
\* terminating Newline.
C5_DrainEndsAtNewline ==
    \A i \in DOMAIN gs :
        (gs[i].pc = "sendTrue" /\ err # Nil) => LastLexeme.tok = "Newline"

\* C6: whenever Parse has returned true the lexer is back in its start state.
C6_LexerResetOnCompletion ==
    (Returned /\ ret = <<TRUE>>) => lexState = "lexStart"

\* C7: the result of a statement depends only on the lines fed since the
\* previous statement completed: when the parsing of a new statement starts,
\* nothing is left of the earlier lines, in the parser or in the lexer whose
\* lexemes it is about to parse.
C7_NewStatementStartsFresh ==
    \A i \in DOMAIN gs :
        (gs[i].pc = "parseStmtList" /\ Len(lines) = 1 /\ sent = 0) =>
            /\ stmt = Nil
            /\ err = Nil
            /\ curr = Nil
            /\ gs[i] = [NewG EXCEPT !.pc = "parseStmtList"]
            /\ lexState = "lexStart"

\* The line has no quote, backslash, dollar, tilde, pipe or semicolon.
IsPlain(line) ==
    \A k \in DOMAIN line : line[k] \notin {"'", "\"", "\\", "$", "~", "|", ";"}

\* The line split on runs of whitespace.
RECURSIVE Fields(_)
Fields(line) ==
    IF line = <<>> THEN <<>>
    ELSE IF Head(line) \in whitespace THEN Fields(Tail(line))
    ELSE LET blanks == {k \in DOMAIN line : line[k] \in whitespace}
             n == IF blanks = {} THEN Len(line) + 1
                  ELSE CHOOSE k \in blanks : \A j \in blanks : k <= j
         IN  <<SubSeq(line, 1, n - 1)>> \o Fields(SubSeq(line, n, Len(line)))

\* No argument vector: the tree is not an empty list or one command.
NoArgv == << <<" ">> >>

\* The expanded argument vector of the one command of a statement list.
ExpandedArgv(s) ==
    IF s.type # "StmtList" THEN NoArgv
    ELSE IF s.Stmts = <<>> THEN <<>>
    ELSE IF Len(s.Stmts) # 1 \/ s.Stmts[1].type # "Pipeline" THEN NoArgv
    ELSE IF Len(s.Stmts[1].Stmts) # 1 THEN NoArgv
    ELSE CmdArgv(s.Stmts[1].Stmts[1])

\* C8: a single line of plain characters and whitespace, fed to a parser that
\* starts a statement in the lexer's start state, is parsed in one Parse call
\* without error, and the expanded argument vector is the line split on runs
\* of whitespace.
C8_PlainLineSplitsOnWhitespace ==
    (Returned /\ Len(lines) = 1 /\ mode0 = "lexStart" /\ IsPlain(lines[1])) =>
        /\ ret = <<TRUE>>
        /\ err = Nil
        /\ stmt # Nil
        /\ ExpandedArgv(stmt) = Fields(lines[1])

\* The line `a  aa` has been parsed into the arguments a and aa.
C8_Witness ==
    /\ Returned
    /\ lines = << <<"a", " ", " ", "a", "a">> >>
    /\ mode0 = "lexStart"
    /\ ExpandedArgv(stmt) = << <<"a">>, <<"a", "a">> >>

\* The index of the first quote character of the line, or 0.
FirstQuote(line) ==
    LET qs == {k \in DOMAIN line : line[k] \in {"'", "\""}}
    IN  IF qs = {} THEN 0 ELSE CHOOSE k \in qs : \A j \in qs : k <= j

Last(s) == s[Len(s)]

Front(s) == SubSeq(s, 1, Len(s) - 1)

\* The part of line j of ls that lies inside the quotes opened at the first
\* quote character of line 1 and closed by the last character of the last line.
Content(ls, j) ==
    LET from == IF j = 1 THEN FirstQuote(ls[1]) + 1 ELSE 1
        to   == IF j = Len(ls) THEN Len(ls[j]) - 1 ELSE Len(ls[j])
    IN  SubSeq(ls[j], from, to)

\* ls is a statement whose last argument is one quoted string that spans all of
\* its lines: plain words, the opening quote, content, and on the last line
\* content and the closing quote. With trailing, a line but the last may end
\* in a backslash; the content holds no other backslash and not the quote.
QuotedOverLines(ls, trailing) ==
    /\ Len(ls) >= 2
    /\ FirstQuote(ls[1]) > 0
    /\ LET p   == FirstQuote(ls[1])
           q   == ls[1][p]
           pre == SubSeq(ls[1], 1, p - 1)
       IN  /\ IsPlain(pre)
           /\ pre = <<>> \/ Last(pre) \in whitespace
           /\ ls[Len(ls)] # <<>> /\ Last(ls[Len(ls)]) = q
           /\ \A j \in 1..Len(ls) :
                 LET c == Content(ls, j)
                 IN  /\ \A k \in DOMAIN c : c[k] # q
                     /\ \A k \in DOMAIN c :
                           c[k] = "\\" => (trailing /\ j < Len(ls) /\ k = Len(c))

\* The content of the lines joined with one newline at each line boundary.
RECURSIVE JoinedFrom(_, _)
JoinedFrom(ls, j) ==
    LET c == Content(ls, j)
        text == IF c # <<>> /\ Last(c) = "\\" THEN Front(c) ELSE c
    IN  IF j = Len(ls) THEN text
        ELSE text \o <<"\n">> \o JoinedFrom(ls, j + 1)

QuotedArgv(ls) ==
    Fields(SubSeq(ls[1], 1, FirstQuote(ls[1]) - 1)) \o <<JoinedFrom(ls, 1)>>

\* C9: a quoted string that spans several fed lines gives one argument, the
\* content of those lines joined with exactly one newline at each line
\* boundary.
C9_QuotedLinesJoinedByNewline ==
    (Returned /\ ret = <<TRUE>> /\ mode0 = "lexStart" /\ QuotedOverLines(lines, TRUE)) =>
        /\ err = Nil
        /\ stmt # Nil
        /\ ExpandedArgv(stmt) = QuotedArgv(lines)

\* C9 for the quoted strings in which no line ends in a backslash.
C9_WithoutTrailingBackslash ==
    (Returned /\ mode0 = "lexStart" /\ QuotedOverLines(lines, FALSE)) =>
        /\ ret = <<TRUE>>
        /\ err = Nil
        /\ stmt # Nil
        /\ ExpandedArgv(stmt) = QuotedArgv(lines)

\* The line is plain text followed by one backslash.
Continued(line) == line # <<>> /\ Last(line) = "\\" /\ IsPlain(Front(line))

\* The lines with the backslash that ends each line but the last removed,
\* joined with nothing between them.
RECURSIVE JoinedLines(_)
JoinedLines(ls) ==
    IF Len(ls) = 1 THEN ls[1] ELSE Front(ls[1]) \o JoinedLines(Tail(ls))

\* C10: outside quotes a line ending in an unescaped backslash continues the
\* statement: Parse returns false for it, and the arguments are those of the
\* lines joined with no separator and no newline, so that words follow as
\* further arguments after whitespace and the halves of a word are joined.
C10_BackslashJoinsLines ==
    (/\ Returned
     /\ mode0 = "lexStart"
     /\ \A j \in 1..(Len(lines) - 1) : Continued(lines[j])) =>
        /\ Continued(Last(lines)) => ret = <<FALSE>>
        /\ (Len(lines) >= 2 /\ IsPlain(Last(lines))) =>
              /\ ret = <<TRUE>>
              /\ err = Nil
              /\ stmt # Nil
              /\ ExpandedArgv(stmt) = Fields(JoinedLines(lines))

\* The lines `a\` and `a` have been parsed into the one argument aa.
C10_Witness ==
    /\ Returned
    /\ lines = << <<"a", "\\">>, <<"a">> >>
    /\ mode0 = "lexStart"
    /\ ExpandedArgv(stmt) = << <<"a", "a">> >>

\* ------------------------------------------------- words with variables

\* The characters of the lines with variable references: a letter, a digit,
\* the underscore, the dollar sign, a blank and a plain character that is not
\* part of an identifier.
VarChars == {"a", "1", "_", "$", " ", "/"}

RECURSIVE SeqsOver(_, _)
SeqsOver(chars, n) ==
    IF n = 0 THEN {<<>>}
    ELSE LET shorter == SeqsOver(chars, n - 1)
         IN  shorter \cup {Append(s, c) : s \in {t \in shorter : Len(t) = n - 1},
                                          c \in chars}

VarLinesOfLen ==
    [n \in 0..(MaxInput - 1) |->
        {line \in SeqsOver(VarChars, MaxInput - 1) : Len(line) = n}]

\* The parser fed with lines over VarChars.
VarNext ==
    \/ /\ dpc = "idle"
       /\ \E n \in 0..(budget - 1) : \E line \in VarLinesOfLen[n] : Parse(line)
    \/ LexReturn
    \/ Result
    \/ Goroutine

VarSpec == Init /\ [][VarNext]_vars

\* The length of the longest prefix of s whose characters are all in set.
RECURSIVE RunLen(_, _)
RunLen(s, set) ==
    IF s = <<>> \/ Head(s) \notin set THEN 0 ELSE 1 + RunLen(Tail(s), set)

Letters == lowercase \cup uppercase

\* The sub-expressions of an unquoted word w: a `$` followed by a letter or an
\* underscore is a variable named by the longest following run of letters,
\* digits and underscores; any other `$` is the literal text `$`.
RECURSIVE WordExprs(_)
WordExprs(w) ==
    IF w = <<>> THEN <<>>
    ELSE IF Head(w) = "$"
    THEN IF Len(w) >= 2 /\ w[2] \in Letters \cup {"_"}
         THEN LET n == RunLen(Tail(w), Letters \cup digits \cup {"_"})
              IN  <<Var(SubSeq(w, 2, n + 1))>> \o WordExprs(SubSeq(w, n + 2, Len(w)))
         ELSE <<String(<<"$">>)>> \o WordExprs(Tail(w))
    ELSE LET n == RunLen(w, VarChars \ {"$"})
         IN  <<String(SubSeq(w, 1, n))>> \o WordExprs(SubSeq(w, n + 1, Len(w)))

\* The tree of a line of unquoted words.
WordsTree(line) ==
    LET f == Fields(line)
    IN  IF f = <<>> THEN StmtList(<<>>)
        ELSE StmtList(<<Pipeline(<<Cmd([k \in 1..Len(f) |-> Word(WordExprs(f[k]))])>>)>>)

\* The first word of the line starts with a `$`.
StartsWithDollar(line) == Fields(line) # <<>> /\ Head(Fields(line)[1]) = "$"

\* C11: in a line of unquoted words that does not start with a `$`, a `$`
\* followed by a letter or an underscore is a variable reference named by the
\* longest following run of letters, digits and underscores, and any other `$`
\* is the literal text `$` of its word, without a parse error; a line whose
\* first word starts with a `$` is a parse error.
C11_DollarInWord ==
    (Returned /\ Len(lines) = 1) =>
        /\ ret = <<TRUE>>
        /\ IF StartsWithDollar(lines[1])
           THEN /\ stmt = Nil
                /\ err = parserError("assignment stmt not yet implemented")
           ELSE /\ err = Nil
                /\ stmt = WordsTree(lines[1])

\* The line `a $$a` has been parsed: its second word is the literal `$`
\* followed by the variable a.
C11_Witness ==
    /\ Returned
    /\ lines = << <<"a", " ", "$", "$", "a">> >>
    /\ err = Nil
    /\ stmt = StmtList(<<Pipeline(<<Cmd(<<Word(<<String(<<"a">>)>>),
                                          Word(<<String(<<"$">>), Var(<<"a">>)>>)>>)>>)>>)

\* C11 as first stated: every `$` outside quotes is a variable reference or
\* the literal `$` of its word, and is no parse error.
C11_DollarAnywhere ==
    (Returned /\ Len(lines) = 1) =>
        /\ ret = <<TRUE>>
        /\ err = Nil
        /\ stmt = WordsTree(lines[1])

\* ------------------------------------------------------- the lexer alone

\* The characters of the lines fed to the lexer alone.
LexChars == {"a", " ", "'", "\"", "\\", "$", "|", "~", ";"}

LexLinesOfLen ==
    [n \in 0..(MaxInput - 1) |->
        {line \in SeqsOver(LexChars, MaxInput - 1) : Len(line) = n}]

\* lexer.lex called on its own, as the lexer's tests do, with a receiver that
\* takes every lexeme. Here lines holds every line fed so far, and mode0 the
\* state function the last line was scanned with.
Lex(line) ==
    /\ Len(line) + 1 <= budget
    /\ out' = lex(lexState, line)
    /\ lexState' = out'.state
    /\ lines' = Append(lines, line)
    /\ mode0' = lexState
    /\ budget' = budget - (Len(line) + 1)
    /\ UNCHANGED <<dpc, sent, ret, res>>
    /\ UNCHANGED parserVars
    /\ UNCHANGED shellVars

LexNext == \E n \in 0..(budget - 1) : \E line \in LexLinesOfLen[n] : Lex(line)

LexSpec == Init /\ [][LexNext]_vars

\* The last line was scanned from the start state and has no quote and no
\* backslash: all of it is outside quotes, and the texts of its lexemes are
\* its characters.
Verbatim ==
    /\ lines # <<>>
    /\ mode0 = "lexStart"
    /\ \A k \in DOMAIN Last(lines) : Last(lines)[k] \notin {"'", "\"", "\\"}

\* The position in the line of the first character of lexeme k.
RECURSIVE PosOf(_, _)
PosOf(l, k) == IF k = 1 THEN 1 ELSE PosOf(l, k - 1) + Len(l[k - 1].text)

\* Position p starts a word: it is the start of the line or follows
\* whitespace, a pipe or a semicolon.
WordInitial(line, p) == p = 1 \/ line[p - 1] \in whitespace \cup {"|", ";"}

\* C12: a Tilde lexeme is emitted only for a `~` that begins a word.
C12_TildeOnlyAtWordStart ==
    Verbatim =>
        \A k \in DOMAIN out.lexemes :
            out.lexemes[k].tok = "Tilde" =>
                WordInitial(Last(lines), PosOf(out.lexemes, k))

Count(line, c) == Cardinality({k \in DOMAIN line : line[k] = c})

Toks(l, tok) == Cardinality({k \in DOMAIN l : l[k].tok = tok})

\* C13: outside quotes every `|` and every `;` of the line is a Pipe or a
\* Semicolon lexeme of its own, escaped or not, and no String or SubString
\* lexeme has one in its text.
C13_PipeAndSemicolonAreLexemes ==
    (/\ lines # <<>>
     /\ mode0 = "lexStart"
     /\ \A k \in DOMAIN Last(lines) : Last(lines)[k] \notin {"'", "\""}) =>
        /\ Toks(out.lexemes, "Pipe") = Count(Last(lines), "|")
        /\ Toks(out.lexemes, "Semicolon") = Count(Last(lines), ";")
        /\ \A k \in DOMAIN out.lexemes :
              out.lexemes[k].tok \in {"String", "SubString"} =>
                  \A j \in DOMAIN out.lexemes[k].text :
                      out.lexemes[k].text[j] \notin {"|", ";"}

\* ---------------------------------------------- interpreter and builtins

\* A (status, error) pair.
Pair(st, e) == [status |-> st, err |-> e]

\* ExitStatus(i), the error value by which exit asks to end the session.
ExitStatus(i) == [type |-> "ExitStatus", code |-> i]

\* errors.New(msg)
errorsNew(msg) == [type |-> "error", msg |-> msg]

Digits == <<"0", "1", "2", "3", "4", "5", "6", "7", "8", "9">>

DigitValue(d) == (CHOOSE n \in 1..10 : Digits[n] = d) - 1

RECURSIVE Decimal(_)
Decimal(s) ==
    IF s = <<>> THEN 0 ELSE Decimal(Front(s)) * 10 + DigitValue(Last(s))

\* strconv.Atoi: an optional sign and one or more decimal digits.
Atoi(s) ==
    LET signed == s # <<>> /\ Head(s) \in {"+", "-"}
        body   == IF signed THEN Tail(s) ELSE s
    IN  IF body = <<>> \/ \E k \in DOMAIN body : body[k] \notin digits
        THEN [ok |-> FALSE, i |-> 0]
        ELSE [ok |-> TRUE,
              i |-> IF signed /\ Head(s) = "-" THEN 0 - Decimal(body) ELSE Decimal(body)]

\* A variant of exit that takes its first argument and ignores the others.
exitFirstArg(args) ==
    IF args = <<>> THEN ExitStatus(0)
    ELSE IF Atoi(args[1]).ok THEN ExitStatus(Atoi(args[1]).i)
    ELSE errorsNew("exit: integer argument required")

\* The exit builtin.
exit(args) ==
    CASE Len(args) = 0 -> ExitStatus(0)
      [] Len(args) = 1 ->
            IF Atoi(args[1]).ok THEN ExitStatus(Atoi(args[1]).i)
            ELSE errorsNew("exit: integer argument required")
      [] OTHER -> errorsNew("exit: too many arguments")

\* The programs exec.Command finds, with the exit code each ends with.
Programs == {<<"t", "r", "u", "e">>, <<"f", "a", "l", "s", "e">>}

ExitCode(name) == IF name = <<"t", "r", "u", "e">> THEN 0 ELSE 1

\* cmd.Run() and cmd.ProcessState.ExitCode(): a program that is not found has
\* no ProcessState, and ExitCode() of none is -1.
Exec(argv) ==
    IF argv[1] \in Programs
    THEN Pair(ExitCode(argv[1]),
              IF ExitCode(argv[1]) = 0 THEN Nil
              ELSE [type |-> "ExitError", code |-> ExitCode(argv[1])])
    ELSE Pair(0 - 1, [type |-> "exec.Error", name |-> argv[1]])

\* VisitCmd, for the commands of the model (no cd).
VisitCmd(c) ==
    LET argv == CmdArgv(c)
    IN  IF Len(argv) = 0 THEN Pair(0, Nil)
        ELSE IF argv[1] = <<"e", "x", "i", "t">>
        THEN IF exit(Tail(argv)) # Nil THEN Pair(1, exit(Tail(argv))) ELSE Pair(0, Nil)
        ELSE Exec(argv)

\* What VisitPipeline returns when every pipe is created: the pair of its
\* last stage.
VisitPipelineResult(p) == VisitCmd(p.Stmts[Len(p.Stmts)])

\* Stmt.Visit
VisitStmt(s) == IF s.type = "Pipeline" THEN VisitPipelineResult(s) ELSE VisitCmd(s)

\* ------------------------------------------------------ the session loop

\* How many lines a session reads before its input ends.
MaxLines == 2

\* How many statements a line has at most.
MaxStmts == 2

\* The argument vectors of the commands of a session.
Argvs ==
    { <<<<"e", "x", "i", "t">>>>,
      <<<<"e", "x", "i", "t">>, <<"2">>>>,
      <<<<"e", "x", "i", "t">>, <<"1", ".", "2">>>>,
      <<<<"e", "x", "i", "t">>, <<"2">>, <<"3">>>>,
      <<<<"t", "r", "u", "e">>>>,
      <<<<"f", "a", "l", "s", "e">>>>,
      <<<<"n", "o">>>> }

CmdOf(argv) == Cmd([k \in 1..Len(argv) |-> Word(<<String(argv[k])>>)])

\* The statements of a session: the empty command, the pipelines of one
\* command, and pipelines of two commands.
Stmts ==
    {Cmd(<<>>)}
    \cup {Pipeline(<<CmdOf(a)>>) : a \in Argvs}
    \cup {Pipeline(<<CmdOf(a), CmdOf(b)>>) :
             a \in {<<<<"e", "x", "i", "t">>, <<"2">>>>, <<<<"f", "a", "l", "s", "e">>>>,
                    <<<<"e", "x", "i", "t">>, <<"1", ".", "2">>>>},
             b \in {<<<<"t", "r", "u", "e">>>>, <<<<"e", "x", "i", "t">>>>}}

RECURSIVE StmtSeqs(_)
StmtSeqs(n) ==
    IF n = 0 THEN {<<>>}
    ELSE LET shorter == StmtSeqs(n - 1)
         IN  shorter \cup {Append(l, t) : l \in {m \in shorter : Len(m) = n - 1},
                                          t \in Stmts}

\* repl: readLine returns io.EOF, the loop ends.
ReplEOF ==
    /\ rpc = "read"
    /\ rpc' = "returned"
    /\ UNCHANGED <<nread, rstmt, sno, ran, vstatus, verr, status, stderr>>
    /\ UNCHANGED <<frontVars, pipeVars, procVars, scanVars>>

\* repl: readLine returns another error.
ReplReadError ==
    /\ rpc = "read"
    /\ nread < MaxLines
    /\ nread' = nread + 1
    /\ stderr' = Append(stderr, <<"mesh: ", errorsNew("read")>>)
    /\ UNCHANGED <<rpc, rstmt, sno, ran, vstatus, verr, status>>
    /\ UNCHANGED <<frontVars, pipeVars, procVars, scanVars>>

\* repl: Parse returns an error for the line.
ReplParseError ==
    /\ rpc = "read"
    /\ nread < MaxLines
    /\ nread' = nread + 1
    /\ status' = 1
    /\ stderr' = Append(stderr, <<"mesh: ", parserError("unexpected token")>>)
    /\ UNCHANGED <<rpc, rstmt, sno, ran, vstatus, verr>>
    /\ UNCHANGED <<frontVars, pipeVars, procVars, scanVars>>

\* repl: Parse returns the tree of the line, and repl calls its Visit.
ReplParse(list) ==
    /\ rpc = "read"
    /\ nread < MaxLines
    /\ nread' = nread + 1
    /\ rstmt' = StmtList(list)
    /\ rpc' = "visit"
    /\ sno' = 1
    /\ ran' = <<>>
    /\ vstatus' = 0
    /\ verr' = Nil
    /\ UNCHANGED <<status, stderr>>
    /\ UNCHANGED <<frontVars, pipeVars, procVars, scanVars>>

\* A variant of VisitStmtList that goes on after a statement's error.
VisitStmtListGoesOn ==
    /\ rpc = "visit"
    /\ IF sno > Len(rstmt.Stmts)
       THEN /\ rpc' = "visited"
            /\ UNCHANGED <<sno, ran, vstatus, verr>>
       ELSE /\ vstatus' = VisitStmt(rstmt.Stmts[sno]).status
            /\ verr' = VisitStmt(rstmt.Stmts[sno]).err
            /\ ran' = Append(ran, sno)
            /\ sno' = sno + 1
            /\ UNCHANGED rpc
    /\ UNCHANGED <<nread, rstmt, status, stderr>>
    /\ UNCHANGED <<frontVars, pipeVars, procVars, scanVars>>

\* VisitStmtList: one turn of its loop, or its return after the last one.
VisitStmtList ==
    /\ rpc = "visit"
    /\ IF sno > Len(rstmt.Stmts)
       THEN /\ rpc' = "visited"
            /\ UNCHANGED <<sno, ran, vstatus, verr>>
       ELSE /\ vstatus' = VisitStmt(rstmt.Stmts[sno]).status
            /\ verr' = VisitStmt(rstmt.Stmts[sno]).err
            /\ ran' = Append(ran, sno)
            /\ IF VisitStmt(rstmt.Stmts[sno]).err # Nil
               THEN rpc' = "visited" /\ UNCHANGED sno
               ELSE sno' = sno + 1 /\ UNCHANGED rpc
    /\ UNCHANGED <<nread, rstmt, status, stderr>>
    /\ UNCHANGED <<frontVars, pipeVars, procVars, scanVars>>

\* A variant of ReplVisited that reports the exit request like any error.
ReplVisitedReportsExit ==
    /\ rpc = "visited"
    /\ IF verr # Nil
       THEN /\ status' = 1
            /\ stderr' = Append(stderr, <<"mesh: ", verr>>)
            /\ rpc' = "read"
       ELSE /\ status' = vstatus
            /\ rpc' = "read"
            /\ UNCHANGED stderr
    /\ UNCHANGED <<nread, rstmt, sno, ran, vstatus, verr>>
    /\ UNCHANGED <<frontVars, pipeVars, procVars, scanVars>>

\* A variant of ReplVisited that ends the loop at every error.
ReplVisitedStopsAtError ==
    /\ rpc = "visited"
    /\ IF verr # Nil
       THEN IF verr.type = "ExitStatus"
            THEN /\ status' = verr.code
                 /\ rpc' = "returned"
                 /\ UNCHANGED stderr
            ELSE /\ status' = 1
                 /\ stderr' = Append(stderr, <<"mesh: ", verr>>)
                 /\ rpc' = "returned"
       ELSE /\ status' = vstatus
            /\ rpc' = "read"
            /\ UNCHANGED stderr
    /\ UNCHANGED <<nread, rstmt, sno, ran, vstatus, verr>>
    /\ UNCHANGED <<frontVars, pipeVars, procVars, scanVars>>

\* repl: stmt.Visit has returned status and err.
ReplVisited ==
    /\ rpc = "visited"
    /\ IF verr # Nil
       THEN IF verr.type = "ExitStatus"
            THEN /\ status' = verr.code
                 /\ rpc' = "returned"
                 /\ UNCHANGED stderr
            ELSE /\ status' = 1
                 /\ stderr' = Append(stderr, <<"mesh: ", verr>>)
                 /\ rpc' = "read"
       ELSE /\ status' = vstatus
            /\ rpc' = "read"
            /\ UNCHANGED stderr
    /\ UNCHANGED <<nread, rstmt, sno, ran, vstatus, verr>>
    /\ UNCHANGED <<frontVars, pipeVars, procVars, scanVars>>

ReplNext ==
    \/ ReplEOF
    \/ ReplReadError
    \/ ReplParseError
    \/ \E list \in StmtSeqs(MaxStmts) : ReplParse(list)
    \/ VisitStmtList
    \/ ReplVisited

ReplSpec == Init /\ [][ReplNext]_vars

\* ------------------------------------------- claims of the session loop

\* The statements of the list repl is visiting that return an error.
Erroring == {k \in 1..Len(rstmt.Stmts) : VisitStmt(rstmt.Stmts[k]).err # Nil}

FirstErroring == CHOOSE k \in Erroring : \A j \in Erroring : k <= j

\* C14: VisitStmtList executes the statements in list order; at the first
\* statement that returns an error it returns that statement's status and
\* error and executes none of the later ones; when no statement errors it
\* returns the last statement's status with a nil error, 0 for the empty list.
C14_StmtListStopsAtFirstError ==
    rpc = "visited" =>
        /\ ran = [k \in 1..Len(ran) |-> k]
        /\ IF Erroring = {}
           THEN /\ Len(ran) = Len(rstmt.Stmts)
                /\ verr = Nil
                /\ vstatus = IF rstmt.Stmts = <<>> THEN 0
                             ELSE VisitStmt(Last(rstmt.Stmts)).status
           ELSE /\ Len(ran) = FirstErroring
                /\ vstatus = VisitStmt(rstmt.Stmts[FirstErroring]).status
                /\ verr = VisitStmt(rstmt.Stmts[FirstErroring]).err

\* A list of two statements whose first one fails: only the first one ran.
C14_Witness ==
    /\ rpc = "visited"
    /\ Len(rstmt.Stmts) = 2
    /\ rstmt.Stmts[1] = Pipeline(<<CmdOf(<<<<"f", "a", "l", "s", "e">>>>)>>)
    /\ ran = <<1>>
    /\ vstatus = 1
    /\ verr # Nil

\* The command whose outcome is the outcome of statement s.
LastStage(s) == IF s.type = "Pipeline" THEN Last(s.Stmts) ELSE s

\* Statement s ends in the exit builtin.
RunsExit(s) ==
    /\ CmdArgv(LastStage(s)) # <<>>
    /\ Head(CmdArgv(LastStage(s))) = <<"e", "x", "i", "t">>

ExitArgs(s) == Tail(CmdArgv(LastStage(s)))

\* exit is used as documented: no argument, or one integer.
ExitUsageOK(s) ==
    \/ ExitArgs(s) = <<>>
    \/ Len(ExitArgs(s)) = 1 /\ Atoi(ExitArgs(s)[1]).ok

RequestedStatus(s) == IF ExitArgs(s) = <<>> THEN 0 ELSE Atoi(ExitArgs(s)[1]).i

C17_ErrorsAreReportedAndSurvived ==
    [][ /\ (rpc = "visited" /\ verr # Nil /\ verr.type # "ExitStatus")
           => /\ stderr' = Append(stderr, <<"mesh: ", verr>>)
              /\ status' = 1
              /\ rpc' = "read"
        /\ (stderr' # stderr /\ Last(stderr')[2].type = "parserError")
           => /\ stderr' = Append(stderr, <<"mesh: ", Last(stderr')[2]>>)
              /\ status' = 1
              /\ rpc' = "read"
              /\ nread' = nread + 1
        /\ (rpc # "returned" /\ rpc' = "returned")
           => \/ rpc = "read" /\ stderr' = stderr /\ status' = status
              \/ rpc = "visited" /\ verr # Nil /\ verr.type = "ExitStatus" ]_vars

\* A parse error on the first line and a failing program on the second:
\* both are reported and the loop is reading again.
C17_Witness ==
    /\ rpc = "read"
    /\ nread = 2
    /\ status = 1
    /\ Len(stderr) = 2
    /\ stderr[1][1] = "mesh: " /\ stderr[1][2].type = "parserError"
    /\ stderr[2][1] = "mesh: " /\ stderr[2][2].type = "ExitError"

\* ------------------------------------------------------------ VisitPipeline

\* How many stages a pipeline has at most.
MaxStages == 3

\* The commands of the stages.
StageCmds ==
    { CmdOf(<<<<"t", "r", "u", "e">>>>),
      CmdOf(<<<<"f", "a", "l", "s", "e">>>>),
      CmdOf(<<<<"e", "x", "i", "t">>, <<"2">>>>) }

\* p.Stmts of the pipelines: one to MaxStages commands.
StageSeqs == UNION {[1..n -> StageCmds] : n \in 1..MaxStages}

\* shell.Stdin and shell.Stdout, and the two ends of the j-th pipe created.
ShellStream == <<"shell">>

ReadEnd(j) == <<"pipe", j, "r">>

WriteEnd(j) == <<"pipe", j, "w">>

\* The error of a failed os.Pipe.
pipeErr == [type |-> "os.SyscallError", msg |-> "pipe"]

\* The deferred fromPipe.Close() calls, run when VisitPipeline returns.
DeferredClose(ps) == [j \in 1..Len(ps) |-> [ps[j] EXCEPT !.rclosed = TRUE]]

\* VisitPipeline is called: the declarations before its loop.
VisitPipeline(stmts) ==
    /\ ppc = "idle"
    /\ pstmts' = stmts
    /\ statuses' = [k \in 1..Len(stmts) |-> 0]
    /\ errs' = [k \in 1..Len(stmts) |-> Nil]
    /\ wg' = Len(stmts)
    /\ index' = 0
    /\ ppc' = "loop"
    /\ UNCHANGED <<pipes, subshells, pret>>
    /\ UNCHANGED <<frontVars, replVars, procVars, scanVars>>

\* A variant of PipelineLoop that gives every stage the pipeline's own input.
PipelineLoopSharedStdin(pipeOk) ==
    /\ ppc = "loop"
    /\ IF index = Len(pstmts) - 1
       THEN /\ pipeOk
            /\ subshells' = Append(subshells,
                   [Stdin |-> ShellStream, Stdout |-> ShellStream, pc |-> "started",
                    Stderr |-> ShellStream])
            /\ index' = index + 1
            /\ ppc' = "wait"
            /\ UNCHANGED <<pipes, pret>>
       ELSE IF pipeOk
       THEN /\ pipes' = Append(pipes, [rclosed |-> FALSE, wclosed |-> FALSE])
            /\ subshells' = Append(subshells,
                   [Stdin |-> ShellStream, Stdout |-> WriteEnd(Len(pipes) + 1),
                    pc |-> "started",
                    Stderr |-> ShellStream])
            /\ index' = index + 1
            /\ UNCHANGED <<ppc, pret>>
       ELSE /\ pret' = Pair(0 - 1, pipeErr)
            /\ pipes' = DeferredClose(pipes)
            /\ ppc' = "returned"
            /\ UNCHANGED <<subshells, index>>
    /\ UNCHANGED <<pstmts, statuses, errs, wg>>
    /\ UNCHANGED <<frontVars, replVars, procVars, scanVars>>

\* A variant of PipelineLoop that creates a pipe for the last stage too.
PipelineLoopAlwaysPipes(pipeOk) ==
    /\ ppc = "loop"
    /\ IF pipeOk
       THEN /\ pipes' = Append(pipes, [rclosed |-> FALSE, wclosed |-> FALSE])
            /\ subshells' = Append(subshells,
                   [Stdin |-> IF index = 0 THEN ShellStream ELSE ReadEnd(Len(pipes)),
                    Stdout |-> WriteEnd(Len(pipes) + 1), pc |-> "started",
                    Stderr |-> ShellStream])
            /\ index' = index + 1
            /\ ppc' = IF index = Len(pstmts) - 1 THEN "wait" ELSE "loop"
            /\ UNCHANGED pret
       ELSE /\ pret' = Pair(0 - 1, pipeErr)
            /\ pipes' = DeferredClose(pipes)
            /\ ppc' = "returned"
            /\ UNCHANGED <<subshells, index>>
    /\ UNCHANGED <<pstmts, statuses, errs, wg>>
    /\ UNCHANGED <<frontVars, replVars, procVars, scanVars>>

\* VisitPipeline: one turn of its loop, for the stage at index. The subshell
\* reads shell.Stdin or fromPipe, the read end of the pipe created last; it
\* writes shell.Stdout or the pipe created now. When os.Pipe fails,
\* VisitPipeline returns at once; otherwise the stage is started.
PipelineLoop(pipeOk) ==
    /\ ppc = "loop"
    /\ IF index = Len(pstmts) - 1
       THEN /\ pipeOk
            /\ subshells' = Append(subshells,
                   [Stdin |-> IF index = 0 THEN ShellStream ELSE ReadEnd(Len(pipes)),
                    Stdout |-> ShellStream, pc |-> "started",
                    Stderr |-> ShellStream])
            /\ index' = index + 1
            /\ ppc' = "wait"
            /\ UNCHANGED <<pipes, pret>>
       ELSE IF pipeOk
       THEN /\ pipes' = Append(pipes, [rclosed |-> FALSE, wclosed |-> FALSE])
            /\ subshells' = Append(subshells,
                   [Stdin |-> IF index = 0 THEN ShellStream ELSE ReadEnd(Len(pipes)),
                    Stdout |-> WriteEnd(Len(pipes) + 1), pc |-> "started",
                    Stderr |-> ShellStream])
            /\ index' = index + 1
            /\ UNCHANGED <<ppc, pret>>
       ELSE /\ pret' = Pair(0 - 1, pipeErr)
            /\ pipes' = DeferredClose(pipes)
            /\ ppc' = "returned"
            /\ UNCHANGED <<subshells, index>>
    /\ UNCHANGED <<pstmts, statuses, errs, wg>>
    /\ UNCHANGED <<frontVars, replVars, procVars, scanVars>>

\* The task of stage k: stmt.Visit(subshell) and the store of its results.
StageVisit(k) ==
    /\ k \in 1..Len(subshells)
    /\ subshells[k].pc = "started"
    /\ statuses' = [statuses EXCEPT ![k] = VisitCmd(pstmts[k]).status]
    /\ errs' = [errs EXCEPT ![k] = VisitCmd(pstmts[k]).err]
    /\ subshells' = [subshells EXCEPT ![k].pc = "visited"]
    /\ UNCHANGED <<ppc, pstmts, index, pipes, wg, pret>>
    /\ UNCHANGED <<frontVars, replVars, procVars, scanVars>>

\* A variant of StageDone that leaves toPipe open.
StageDoneKeepsPipe(k) ==
    /\ k \in 1..Len(subshells)
    /\ subshells[k].pc = "visited"
    /\ wg' = wg - 1
    /\ subshells' = [subshells EXCEPT ![k].pc = "done"]
    /\ UNCHANGED <<ppc, pstmts, index, pipes, statuses, errs, pret>>
    /\ UNCHANGED <<frontVars, replVars, procVars, scanVars>>

\* The task of stage k: toPipe.Close() when it has one, and wg.Done().
StageDone(k) ==
    /\ k \in 1..Len(subshells)
    /\ subshells[k].pc = "visited"
    /\ pipes' = IF subshells[k].Stdout = ShellStream THEN pipes
                ELSE [pipes EXCEPT ![subshells[k].Stdout[2]].wclosed = TRUE]
    /\ wg' = wg - 1
    /\ subshells' = [subshells EXCEPT ![k].pc = "done"]
    /\ UNCHANGED <<ppc, pstmts, index, statuses, errs, pret>>
    /\ UNCHANGED <<frontVars, replVars, procVars, scanVars>>

\* A variant of PipelineWait that returns the pair of the first stage that
\* failed.
PipelineWaitPipefail ==
    /\ ppc = "wait"
    /\ wg = 0
    /\ pret' = LET failed == {k \in 1..Len(pstmts) : errs[k] # Nil}
                   k == IF failed = {} THEN Len(pstmts)
                        ELSE CHOOSE a \in failed : \A b \in failed : a <= b
               IN  Pair(statuses[k], errs[k])
    /\ pipes' = DeferredClose(pipes)
    /\ ppc' = "returned"
    /\ UNCHANGED <<pstmts, index, subshells, statuses, errs, wg>>
    /\ UNCHANGED <<frontVars, replVars, procVars, scanVars>>

\* VisitPipeline: wg.Wait() has returned, and so does VisitPipeline.
PipelineWait ==
    /\ ppc = "wait"
    /\ wg = 0
    /\ pret' = Pair(statuses[Len(pstmts)], errs[Len(pstmts)])
    /\ pipes' = DeferredClose(pipes)
    /\ ppc' = "returned"
    /\ UNCHANGED <<pstmts, index, subshells, statuses, errs, wg>>
    /\ UNCHANGED <<frontVars, replVars, procVars, scanVars>>

PipeNext ==
    \/ \E stmts \in StageSeqs : VisitPipeline(stmts)
    \/ \E pipeOk \in BOOLEAN : PipelineLoop(pipeOk)
    \/ \E k \in 1..MaxStages : StageVisit(k)
    \/ \E k \in 1..MaxStages : StageDone(k)
    \/ PipelineWait

PipeSpec == Init /\ [][PipeNext]_vars

\* ------------------------------------------------- claims of VisitPipeline

\* The stages started so far are wired as a chain: the first reads the
\* pipeline's input, every other reads the pipe before it, and every stage
\* but the last of the pipeline writes the pipe after it.
Chained ==
    \A k \in 1..Len(subshells) :
        /\ subshells[k].Stdin = IF k = 1 THEN ShellStream ELSE ReadEnd(k - 1)
        /\ subshells[k].Stdout = IF k = Len(pstmts) THEN ShellStream ELSE WriteEnd(k)

Readers(j) == {k \in 1..Len(subshells) : subshells[k].Stdin = ReadEnd(j)}

Writers(j) == {k \in 1..Len(subshells) : subshells[k].Stdout = WriteEnd(j)}

\* Every pipe has exactly one writing stage and exactly one reading stage.
OneWriterOneReader ==
    \A j \in 1..Len(pipes) : Cardinality(Writers(j)) = 1 /\ Cardinality(Readers(j)) = 1

C20_ReturnsAfterAllStages ==
    ppc = "returned" => \A k \in 1..Len(subshells) : subshells[k].pc = "done"

\* The stage goroutines are scheduled: a stage whose Visit has returned goes
\* on to close its pipe and to call wg.Done().
PipeFairSpec == PipeSpec /\ \A k \in 1..MaxStages : WF_vars(StageDone(k))

\* Stage k has been started with a pipe to write to.
HasToPipe(k) == k <= Len(subshells) /\ subshells[k].Stdout # ShellStream

\* The write end of the pipe stage k writes to is closed: a read of the
\* drained pipe returns end-of-input.
ToPipeClosed(k) == HasToPipe(k) /\ pipes[subshells[k].Stdout[2]].wclosed

\* C21: after the Visit of a stage that is not the last one has returned, the
\* write end of the pipe the stage wrote to is eventually closed, so that the
\* stage reading the pipe finds end-of-input once the pipe is drained.
C21_WriteEndClosedAfterStage ==
    \A k \in 1..(MaxStages - 1) :
        (HasToPipe(k) /\ subshells[k].pc = "visited") ~> ToPipeClosed(k)

\* The first stage has finished and closed its pipe while the second stage,
\* which reads that pipe, is still running.
C21_Witness ==
    /\ Len(subshells) >= 2
    /\ subshells[1].pc = "done"
    /\ ToPipeClosed(1)
    /\ subshells[2].Stdin = ReadEnd(1)
    /\ subshells[2].pc = "started"

\* C22: each pipe end is closed once and by its one owner: a write end by the
\* task of the stage that writes it, when that stage's Visit has returned, a
\* read end by VisitPipeline when it returns and no stage reading it is
\* running; an end that is closed stays closed, and when VisitPipeline has
\* returned no end of a pipe it created is open.
C22_PipeEndsClosedOnce ==
    [][ /\ \A j \in 1..Len(pipes) :
              /\ pipes[j].rclosed => pipes'[j].rclosed
              /\ pipes[j].wclosed => pipes'[j].wclosed
              /\ (~pipes[j].wclosed /\ pipes'[j].wclosed)
                    => \E k \in Writers(j) : /\ subshells[k].pc = "visited"
                                             /\ subshells'[k].pc = "done"
              /\ (~pipes[j].rclosed /\ pipes'[j].rclosed)
                    => /\ ppc # "returned" /\ ppc' = "returned"
                       /\ \A k \in Readers(j) : subshells[k].pc = "done"
        /\ ppc' = "returned"
              => \A j \in 1..Len(pipes') : pipes'[j].rclosed /\ pipes'[j].wclosed ]_vars

\* ------------------------------------------------------------ the cd builtin

\* How many times a session calls cd.
MaxCds == 3

\* The directories of the file system, each as the names on the way from the
\* root, and its one symbolic link, /l, which points to /a/b.
Root == <<>>

Dirs == {Root, <<"a">>, <<"a", "b">>, <<"c">>, <<"h">>}

LinkAt == <<"l">>

LinkTo == <<"a", "b">>

\* The result of a walk that does not end at a directory.
NoDir == <<"ENOENT">>

\* The elements of a path: what lies between its separators.
RECURSIVE Split(_, _, _)
Split(path, elems, elem) ==
    IF path = <<>>
    THEN IF elem = <<>> THEN elems ELSE Append(elems, elem)
    ELSE IF Head(path) = "/"
    THEN Split(Tail(path), IF elem = <<>> THEN elems ELSE Append(elems, elem), <<>>)
    ELSE Split(Tail(path), elems, Append(elem, Head(path)))

Elems(path) == Split(path, <<>>, <<>>)

filepathIsAbs(path) == path # <<>> /\ Head(path) = "/"

\* The rooted path of the elements.
RECURSIVE Rooted(_)
Rooted(elems) ==
    IF elems = <<>> THEN <<>> ELSE <<"/">> \o Head(elems) \o Rooted(Tail(elems))

PathOf(elems) == IF elems = <<>> THEN <<"/">> ELSE Rooted(elems)

\* filepath.Clean of a rooted path: "." is dropped, and ".." drops the element
\* before it, by the text of the path alone.
RECURSIVE Clean(_, _)
Clean(elems, acc) ==
    IF elems = <<>> THEN acc
    ELSE IF Head(elems) = <<".">> THEN Clean(Tail(elems), acc)
    ELSE IF Head(elems) = <<".", ".">>
    THEN Clean(Tail(elems), IF acc = <<>> THEN acc ELSE Front(acc))
    ELSE Clean(Tail(elems), Append(acc, Head(elems)))

\* The directory the kernel reaches from dir along the elements: a symbolic
\* link is followed, and ".." is the parent of the directory reached.
RECURSIVE Walk(_, _)
Walk(dir, elems) ==
    IF dir = NoDir \/ elems = <<>> THEN dir
    ELSE IF Head(elems) = <<".">> THEN Walk(dir, Tail(elems))
    ELSE IF Head(elems) = <<".", ".">>
    THEN Walk(IF dir = Root THEN Root ELSE Front(dir), Tail(elems))
    ELSE IF Len(Head(elems)) # 1 THEN NoDir
    ELSE LET entry == Append(dir, Head(elems)[1])
         IN  IF entry = LinkAt THEN Walk(LinkTo, Tail(elems))
             ELSE IF entry \in Dirs THEN Walk(entry, Tail(elems))
             ELSE NoDir

\* The directory path names for a process whose working directory is dir.
Lookup(dir, path) ==
    IF path = <<>> THEN NoDir
    ELSE Walk(IF filepathIsAbs(path) THEN Root ELSE dir, Elems(path))

\* os.Getwd: $PWD when it names the working directory, else the path the
\* kernel reports.
Getwd ==
    IF filepathIsAbs(Getenv(<<"P", "W", "D">>)) /\ Lookup(cwd, Getenv(<<"P", "W", "D">>)) = cwd
    THEN Getenv(<<"P", "W", "D">>)
    ELSE PathOf(cwd)

\* filepath.Abs
filepathAbs(path) ==
    IF filepathIsAbs(path) THEN PathOf(Clean(Elems(path), <<>>))
    ELSE PathOf(Clean(Elems(Getwd) \o Elems(path), <<>>))

fmtErrorf(msg) == [type |-> "error", msg |-> msg]

\* The switch of cd: the target, or the error it returns.
cdTarget(args) ==
    CASE Len(args) = 0 -> [err |-> Nil, target |-> HomeDir]
      [] Len(args) = 1 ->
            IF args[1] # <<"-">> THEN [err |-> Nil, target |-> args[1]]
            ELSE IF env[<<"O", "L", "D", "P", "W", "D">>] = Unset
            THEN [err |-> fmtErrorf("cd: OLDPWD not set"), target |-> <<>>]
            ELSE [err |-> Nil, target |-> env[<<"O", "L", "D", "P", "W", "D">>]]
      [] OTHER -> [err |-> errorsNew("cd: too many arguments"), target |-> <<>>]

\* The arguments of the cd calls of a session.
CdArgs ==
    { <<>>, <<<<"-">>>>, <<<<"/", "a">>>>, <<<<"b">>>>, <<<<"/", "c">>>>, <<<<".", ".">>>>,
      <<<<"/", "l">>>>, <<<<"/", "l", "/", ".", ".">>>>, <<<<"x">>>>,
      <<<<"/", "a">>, <<"/", "c">>>> }

\* The cd builtin, called with args.
\* A variant of cd that sets OLDPWD before it changes the directory.
cdSetsOldpwdFirst(args) ==
    /\ cdn < MaxCds
    /\ cdn' = cdn + 1
    /\ LET t      == cdTarget(args)
           oldpwd == Getenv(<<"P", "W", "D">>)
           newpwd == filepathAbs(t.target)
           called(e) == [args |-> args, err |-> e, pwd |-> env[<<"P", "W", "D">>],
                         oldpwd |-> env[<<"O", "L", "D", "P", "W", "D">>], cwd |-> cwd,
                         before |-> cdlast]
       IN  IF t.err # Nil
           THEN /\ cdlast' = called(t.err)
                /\ UNCHANGED <<env, cwd>>
           ELSE IF Lookup(cwd, t.target) = NoDir
           THEN /\ cdlast' = called(fmtErrorf("cd: chdir"))
                /\ env' = [env EXCEPT ![<<"O", "L", "D", "P", "W", "D">>] = oldpwd]
                /\ UNCHANGED cwd
           ELSE /\ cwd' = Lookup(cwd, t.target)
                /\ env' = [env EXCEPT ![<<"O", "L", "D", "P", "W", "D">>] = oldpwd,
                                      ![<<"P", "W", "D">>] = newpwd]
                /\ cdlast' = called(Nil)
    /\ UNCHANGED <<cds, wres, fill, written>>
    /\ UNCHANGED <<frontVars, replVars, pipeVars, scanVars>>

cd(args) ==
    /\ cdn < MaxCds
    /\ cdn' = cdn + 1
    /\ LET t      == cdTarget(args)
           oldpwd == Getenv(<<"P", "W", "D">>)
           newpwd == filepathAbs(t.target)
           called(e) == [args |-> args, err |-> e, pwd |-> env[<<"P", "W", "D">>],
                         oldpwd |-> env[<<"O", "L", "D", "P", "W", "D">>], cwd |-> cwd,
                         before |-> cdlast]
       IN  IF t.err # Nil
           THEN /\ cdlast' = called(t.err)
                /\ UNCHANGED <<env, cwd>>
           ELSE IF Lookup(cwd, t.target) = NoDir
           THEN /\ cdlast' = called(fmtErrorf("cd: chdir"))
                /\ UNCHANGED <<env, cwd>>
           ELSE /\ cwd' = Lookup(cwd, t.target)
                /\ env' = [env EXCEPT ![<<"O", "L", "D", "P", "W", "D">>] = oldpwd,
                                      ![<<"P", "W", "D">>] = newpwd]
                /\ cdlast' = called(Nil)
    /\ UNCHANGED <<cds, wres, fill, written>>
    /\ UNCHANGED <<frontVars, replVars, pipeVars, scanVars>>

CdNext == \E args \in CdArgs : cd(args)

CdSpec == Init /\ [][CdNext]_vars

\* C23: after a successful cd, PWD holds an absolute path of the new working
\* directory and OLDPWD holds the value PWD had before the call; `cd -` makes
\* the directory that was stored in OLDPWD the working directory.
C23_PwdAndOldpwd ==
    (cdlast # Nil /\ cdlast.err = Nil)
        => /\ filepathIsAbs(env[<<"P", "W", "D">>])
           /\ Lookup(Root, env[<<"P", "W", "D">>]) = cwd
           /\ env[<<"O", "L", "D", "P", "W", "D">>] = cdlast.pwd
           /\ cdlast.args = <<<<"-">>>> => cwd = Lookup(cdlast.cwd, cdlast.oldpwd)

\* ----------------------------------------- claims of the lexeme channel

\* C24: the channel of lexemes has no buffer. A send of the lexer completes
\* in the step in which the parser receives the lexeme; the parser receives
\* only when it holds no lexeme, so the lexer completes the send of lexeme
\* n+1 only after the parser has received and accepted lexeme n; the lexemes
\* arrive in the order of the lexer, and lex returns only when the parser has
\* received every lexeme of the line.
C24_ChannelUnbuffered ==
    [][ /\ (dpc = "lex" /\ sent' # sent)
           => /\ sent' = sent + 1
              /\ curr = Nil
              /\ curr' = out.lexemes[sent + 1]
              /\ out' = out
        /\ (dpc = "lex" /\ dpc' # "lex") => sent = Len(out.lexemes) ]_vars

\* The lexer waits to send the third lexeme of a line while the parser holds
\* the second.
C24_Witness ==
    /\ dpc = "lex"
    /\ Len(out.lexemes) >= 3
    /\ sent = 2
    /\ curr = out.lexemes[2]

\* The goroutines that are inside the body of parseStmtList: past
\* p.lock.Lock() and not yet past p.lock.Unlock().
InBody == {i \in DOMAIN gs : gs[i].pc # "start"}

CdStageCmds ==
    { CmdOf(<<<<"c", "d">>, <<"/", "a">>>>),
      CmdOf(<<<<"c", "d">>, <<"/", "c">>>>),
      CmdOf(<<<<"c", "d">>, <<"-">>>>) }

CdStageSeqs == UNION {[1..n -> CdStageCmds] : n \in 1..MaxStages}

\* The locals of the cd call of stage k.
CdCall(pc, target, oldpwd, newpwd) ==
    [pc |-> pc, target |-> target, oldpwd |-> oldpwd, newpwd |-> newpwd]

\* cd returns e to VisitCmd, which returns to the task of stage k.
CdReturn(k, e) ==
    /\ statuses' = [statuses EXCEPT ![k] = IF e = Nil THEN 0 ELSE 1]
    /\ errs' = [errs EXCEPT ![k] = e]
    /\ subshells' = [subshells EXCEPT ![k].pc = "visited"]
    /\ cds' = [cds EXCEPT ![k].pc = "returned"]

\* The task of stage k calls stmt.Visit: VisitCmd finds the builtin and runs
\* cd up to the end of its switch.
StageCd(k) ==
    /\ k \in 1..Len(subshells)
    /\ subshells[k].pc = "started"
    /\ k \notin DOMAIN cds
    /\ CmdArgv(pstmts[k])[1] = <<"c", "d">>
    /\ LET t == cdTarget(Tail(CmdArgv(pstmts[k])))
       IN  IF t.err # Nil
           THEN /\ cds' = cds @@ (k :> CdCall("returned", <<>>, <<>>, <<>>))
                /\ statuses' = [statuses EXCEPT ![k] = 1]
                /\ errs' = [errs EXCEPT ![k] = t.err]
                /\ subshells' = [subshells EXCEPT ![k].pc = "visited"]
           ELSE /\ cds' = cds @@ (k :> CdCall("getenv", t.target, <<>>, <<>>))
                /\ UNCHANGED <<statuses, errs, subshells>>
    /\ UNCHANGED <<ppc, pstmts, index, pipes, wg, pret>>
    /\ UNCHANGED <<env, cwd, cdn, cdlast, wres, fill, written>>
    /\ UNCHANGED <<frontVars, replVars, scanVars>>

\* cd of stage k: oldpwd := os.Getenv("PWD")
CdGetenv(k) ==
    /\ k \in DOMAIN cds
    /\ cds[k].pc = "getenv"
    /\ cds' = [cds EXCEPT ![k].pc = "abs", ![k].oldpwd = Getenv(<<"P", "W", "D">>)]
    /\ UNCHANGED <<env, cwd, cdn, cdlast, wres, fill, written>>
    /\ UNCHANGED <<frontVars, replVars, pipeVars, scanVars>>

\* cd of stage k: newpwd, _ := filepath.Abs(target)
CdAbs(k) ==
    /\ k \in DOMAIN cds
    /\ cds[k].pc = "abs"
    /\ cds' = [cds EXCEPT ![k].pc = "chdir", ![k].newpwd = filepathAbs(cds[k].target)]
    /\ UNCHANGED <<env, cwd, cdn, cdlast, wres, fill, written>>
    /\ UNCHANGED <<frontVars, replVars, pipeVars, scanVars>>

\* cd of stage k: os.Chdir(target), and the return of its error.
CdChdir(k) ==
    /\ k \in DOMAIN cds
    /\ cds[k].pc = "chdir"
    /\ IF Lookup(cwd, cds[k].target) = NoDir
       THEN /\ CdReturn(k, fmtErrorf("cd: chdir"))
            /\ UNCHANGED cwd
       ELSE /\ cwd' = Lookup(cwd, cds[k].target)
            /\ cds' = [cds EXCEPT ![k].pc = "setoldpwd"]
            /\ UNCHANGED <<statuses, errs, subshells>>
    /\ UNCHANGED <<ppc, pstmts, index, pipes, wg, pret>>
    /\ UNCHANGED <<env, cdn, cdlast, wres, fill, written>>
    /\ UNCHANGED <<frontVars, replVars, scanVars>>

\* cd of stage k: os.Setenv("OLDPWD", oldpwd)
CdSetOldpwd(k) ==
    /\ k \in DOMAIN cds
    /\ cds[k].pc = "setoldpwd"
    /\ env' = [env EXCEPT ![<<"O", "L", "D", "P", "W", "D">>] = cds[k].oldpwd]
    /\ cds' = [cds EXCEPT ![k].pc = "setpwd"]
    /\ UNCHANGED <<cwd, cdn, cdlast, wres, fill, written>>
    /\ UNCHANGED <<frontVars, replVars, pipeVars, scanVars>>

\* cd of stage k: return os.Setenv("PWD", newpwd)
CdSetPwd(k) ==
    /\ k \in DOMAIN cds
    /\ cds[k].pc = "setpwd"
    /\ env' = [env EXCEPT ![<<"P", "W", "D">>] = cds[k].newpwd]
    /\ CdReturn(k, Nil)
    /\ UNCHANGED <<ppc, pstmts, index, pipes, wg, pret>>
    /\ UNCHANGED <<cwd, cdn, cdlast, wres, fill, written>>
    /\ UNCHANGED <<frontVars, replVars, scanVars>>

CdPipeNext ==
    \/ \E stmts \in CdStageSeqs : VisitPipeline(stmts)
    \/ \E pipeOk \in BOOLEAN : PipelineLoop(pipeOk)
    \/ \E k \in 1..MaxStages : StageCd(k)
    \/ \E k \in 1..MaxStages : CdGetenv(k)
    \/ \E k \in 1..MaxStages : CdAbs(k)
    \/ \E k \in 1..MaxStages : CdChdir(k)
    \/ \E k \in 1..MaxStages : CdSetOldpwd(k)
    \/ \E k \in 1..MaxStages : CdSetPwd(k)
    \/ \E k \in 1..MaxStages : StageDone(k)
    \/ PipelineWait

CdPipeSpec == Init /\ [][CdPipeNext]_vars

\* The stages that are inside cd.
InCd == {k \in DOMAIN cds : cds[k].pc # "returned"}

\* C26: the stages of one pipeline are never inside cd at the same time.
C26_NoConcurrentCd == Cardinality(InCd) <= 1

\* ------------------------------------------------------- words evaluated

\* How many sub-expressions a word has at most.
MaxParts == 3

\* The sub-expressions of the words, and the values the variables take.
SubExprs ==
    { String(<<"x">>), String(<<" ", "y">>), String(<<>>), Tilde(<<"~">>),
      Var(<<"a">>), Var(<<"b">>) }

Words == UNION {{Word(ps) : ps \in [1..n -> SubExprs]} : n \in 0..MaxParts}

Values == {Unset, <<>>, <<"1">>, <<"2", " ">>}

\* os.Setenv(name, value), or os.Unsetenv(name) for the value Unset, by the
\* owner of the process.
Setenv(name, value) ==
    /\ env[name] # value
    /\ env' = [env EXCEPT ![name] = value]
    /\ UNCHANGED <<cwd, cdn, cdlast, cds, wres, fill, written>>
    /\ UNCHANGED <<frontVars, replVars, pipeVars, scanVars>>

\* The interpreter visits the word w.
VisitWordCall(w) ==
    /\ wres' = [word |-> w, text |-> VisitWord(w)]
    /\ UNCHANGED <<env, cwd, cdn, cdlast, cds, fill, written>>
    /\ UNCHANGED <<frontVars, replVars, pipeVars, scanVars>>

WordNext ==
    \/ \E name \in {<<"a">>, <<"b">>} : \E value \in Values : Setenv(name, value)
    \/ \E w \in Words : VisitWordCall(w)

WordSpec == Init /\ [][WordNext]_vars

\* What the claim gives for one sub-expression: the text of a literal, the
\* home directory for a tilde, and for a variable its value in the
\* environment, or nothing when it is unset.
Expansion(e) ==
    CASE e.type = "String" -> e.Text
      [] e.type = "Tilde" -> HomeDir
      [] e.type = "Var" -> IF env[e.Identifier] = Unset THEN <<>> ELSE env[e.Identifier]

\* The expansions of the sub-expressions of w from p on, one after the other.
RECURSIVE ExpansionsFrom(_, _)
ExpansionsFrom(w, p) ==
    IF p > Len(w.SubExprs) THEN <<>>
    ELSE Expansion(w.SubExprs[p]) \o ExpansionsFrom(w, p + 1)

SepChars == {";", " ", "a", "$", "\\"}

SepLinesOfLen ==
    [n \in 0..(MaxInput - 1) |->
        {line \in SeqsOver(SepChars, MaxInput - 1) : Len(line) = n}]

\* The parser fed with lines over SepChars.
SepNext ==
    \/ /\ dpc = "idle"
       /\ \E n \in 0..(budget - 1) : \E line \in SepLinesOfLen[n] : Parse(line)
    \/ LexReturn
    \/ Result
    \/ Goroutine

SepSpec == Init /\ [][SepNext]_vars

\* The commands of statement s.
CmdsOf(s) == IF s.type = "Pipeline" THEN s.Stmts ELSE <<s>>

\* Visiting statement s does nothing: it returns status 0 and no error, and
\* none of its commands has a word, so that no builtin is looked up and no
\* process is started.
NoOp(s) ==
    /\ VisitStmt(s) = Pair(0, Nil)
    /\ \A k \in DOMAIN CmdsOf(s) : CmdArgv(CmdsOf(s)[k]) = <<>>

\* The line consists of blanks and semicolons only.
OnlySeparators(line) == \A k \in DOMAIN line : line[k] \in {" ", ";"}

\* C28: a line that is empty or holds only blanks and `;` separators, fed at
\* the start of a statement, is parsed by one Parse call, which returns true
\* with a tree and no error, and visiting the tree does nothing: status 0, no
\* error, no builtin and no process.
C28_BlankLineIsNoOp ==
    (Returned /\ Len(lines) = 1 /\ mode0 = "lexStart" /\ OnlySeparators(lines[1]))
        => /\ ret = Return(TRUE)
           /\ err = Nil
           /\ stmt # Nil
           /\ \A k \in DOMAIN stmt.Stmts : NoOp(stmt.Stmts[k])

\* ------------------------------------------ the lexemes that end a line

\* The state function that scans the inside of a string opened by quote q.
QuoteMode(q) == IF q = "'" THEN "lexSingleQuoted" ELSE "lexDoubleQuoted"

Has(line, c) == \E k \in DOMAIN line : line[k] = c

\* The last line opens, at the start of a word, a quoted string and has no
\* second quote of that kind, or it was scanned inside a quoted string and
\* has no quote of that kind: it ends inside the string. The value is the
\* state function for that kind of string, or "none".
OpenAtEnd ==
    LET line == Last(lines)
        opens(p) ==
            /\ line[p] \in {"'", "\""}
            /\ p = 1 \/ line[p - 1] = " "
            /\ \A k \in DOMAIN line : k # p => line[k] \notin {line[p], "\\"}
            /\ \A k \in 1..(p - 1) : line[k] \notin {"'", "\""}
    IN  IF mode0 = "lexSingleQuoted" /\ ~Has(line, "'") THEN mode0
        ELSE IF mode0 = "lexDoubleQuoted" /\ ~Has(line, "\"") THEN mode0
        ELSE IF mode0 = "lexStart" /\ \E p \in DOMAIN line : opens(p)
        THEN QuoteMode(line[CHOOSE p \in DOMAIN line : opens(p)])
        ELSE "none"

\* The last line has no quote and no variable, was scanned outside quotes,
\* and ends with a backslash that follows the text of an unquoted word.
EndsInWord ==
    LET line == Last(lines)
    IN  /\ mode0 \in {"lexStart", "lexUnquoted"}
        /\ Len(line) >= 2
        /\ line[Len(line)] = "\\"
        /\ line[Len(line) - 1] \in {"a", ";"}
        /\ \A k \in DOMAIN line : line[k] \notin {"'", "\"", "$"}

Terminators == {k \in DOMAIN out.lexemes : out.lexemes[k].tok \in {"Newline", "EscapedNewline"}}

\* The lexemes of the last line end with a SubString and a Newline.
SubStringThenNewline ==
    /\ Len(out.lexemes) >= 2
    /\ out.lexemes[Len(out.lexemes) - 1].tok = "SubString"
    /\ LastLexeme.tok = "Newline"

\* C29: the lexemes of a lex call end with a Newline, or with an
\* EscapedNewline and no Newline when the line ends with a backslash outside
\* a word; a line that ends inside a quoted string or with a backslash after
\* the text of an unquoted word has a SubString as the lexeme before its
\* final Newline.
C29_LineEndsWithNewlineOrEscape ==
    lines # <<>> =>
        /\ LastLexeme.tok \in {"Newline", "EscapedNewline"}
        /\ LastLexeme.tok = "EscapedNewline"
              => /\ Toks(out.lexemes, "Newline") = 0
                 /\ Toks(out.lexemes, "SubString") = 0
                 /\ Last(lines) # <<>> /\ Last(Last(lines)) = "\\"
        /\ (OpenAtEnd # "none" \/ EndsInWord) => SubStringThenNewline

\* The line 'a was fed: it ends inside a quoted string.
C29_Witness ==
    /\ lines = <<<<"'", "a">>>>
    /\ out.lexemes = <<Lexeme("SubString", <<"a", "\n">>), Lexeme("Newline", <<>>)>>

\* C29 as stated: a line that ends inside a quoted string or after a
\* backslash continuation has a SubString or an EscapedNewline as its last
\* lexeme and no Newline; every other line ends with a Newline.
C29_NoNewlineWhenContinued ==
    lines # <<>> =>
        IF OpenAtEnd # "none" \/ EndsInWord \/ LastLexeme.tok = "EscapedNewline"
        THEN /\ LastLexeme.tok \in {"SubString", "EscapedNewline"}
             /\ Toks(out.lexemes, "Newline") = 0
        ELSE LastLexeme.tok = "Newline"

\* C30: every lex call emits at least one lexeme and exactly one line
\* terminator, a Newline or an EscapedNewline, as its last lexeme. A
\* SubString is followed at once by the Newline, and the lexer then resumes
\* on the next line in the mode the line ended in: inside the same kind of
\* quoted string, or inside the unquoted word.
C30_OneTerminatorLast ==
    lines # <<>> =>
        /\ out.lexemes # <<>>
        /\ Terminators = {Len(out.lexemes)}
        /\ \A k \in DOMAIN out.lexemes :
              out.lexemes[k].tok = "SubString"
                 => /\ k = Len(out.lexemes) - 1
                    /\ LastLexeme.tok = "Newline"
                    /\ lexState \in {"lexSingleQuoted", "lexDoubleQuoted", "lexUnquoted"}
        /\ OpenAtEnd # "none" => (SubStringThenNewline /\ lexState = OpenAtEnd)
        /\ EndsInWord => (SubStringThenNewline /\ lexState = "lexUnquoted")
        /\ Toks(out.lexemes, "SubString") = 0 => lexState = "lexStart"

\* The line "a was fed and then the line a: the first ended inside a
\* double-quoted string, and so does the second.
C30_Witness ==
    /\ lines = <<<<"\"", "a">>, <<"a">>>>
    /\ mode0 = "lexDoubleQuoted"
    /\ OpenAtEnd = "lexDoubleQuoted"
    /\ SubStringThenNewline
    /\ lexState = "lexDoubleQuoted"

\* ------------------------------------------------- the saved scan mode

ContinuationModes == {"lexSingleQuoted", "lexDoubleQuoted", "lexUnquoted"}

\* C31: after lex returns, the saved state function is one of the three
\* continuation modes exactly when the last two lexemes of the line are a
\* SubString and a Newline; otherwise it is the start state.
C31_SavedModeFollowsSubString ==
    lines # <<>> =>
        /\ lexState \in ContinuationModes <=> SubStringThenNewline
        /\ ~SubStringThenNewline => lexState = "lexStart"

\* The line a\ was fed: the saved mode is the unquoted continuation.
C31_Witness ==
    /\ lines = <<<<"a", "\\">>>>
    /\ SubStringThenNewline
    /\ lexState = "lexUnquoted"

\* ------------------------------------------------------ escapes in text

\* The character at position k of line follows a backslash that is not
\* itself escaped.
RECURSIVE Escaped(_, _)
Escaped(line, k) == k > 1 /\ line[k - 1] = "\\" /\ ~Escaped(line, k - 1)

\* The character at position k of line is a backslash that escapes what
\* follows it.
IsEscape(line, k) == line[k] = "\\" /\ ~Escaped(line, k)

\* The position of the first unescaped character of line that is in delim,
\* or one past the end of line.
End(line, delim) ==
    LET ends == {k \in DOMAIN line : line[k] \in delim /\ ~Escaped(line, k)}
    IN  IF ends = {} THEN Len(line) + 1
        ELSE CHOOSE k \in ends : \A j \in ends : k <= j

\* The characters of line[1..n] without the backslashes that escape.
RECURSIVE Unescape(_, _)
Unescape(line, n) ==
    IF n = 0 THEN <<>>
    ELSE IF IsEscape(line, n) THEN Unescape(line, n - 1)
    ELSE Append(Unescape(line, n - 1), line[n])

\* C32: the text of a quoted string that is closed on the line is the
\* characters up to the first unescaped occurrence of its quote, with every
\* escaping backslash removed and everything else, whitespace and the other
\* quote included, kept as it is; the quotes around it are not in the text.
\* The text of an unquoted word is the characters up to the first unescaped
\* delimiter, with every escaping backslash removed.
C32_BackslashEscapesOneCharacter ==
    lines # <<>> =>
        LET line0  == Last(lines)
            opened == mode0 = "lexStart" /\ line0 # <<>> /\ Head(line0) \in {"'", "\""}
            quote  == IF mode0 = "lexSingleQuoted" THEN "'"
                      ELSE IF mode0 = "lexDoubleQuoted" THEN "\""
                      ELSE Head(line0)
            inside == IF opened THEN Tail(line0) ELSE line0
            close  == End(inside, {quote})
            word   == End(line0, special \cup whitespace)
        IN  /\ (opened \/ mode0 \in {"lexSingleQuoted", "lexDoubleQuoted"})
                  /\ close <= Len(inside)
               => /\ out.lexemes[1] = Lexeme("String", Unescape(inside, close - 1))
                  /\ \A k \in 1..(close - 1) :
                        inside[k] = quote => Escaped(inside, k)
                  /\ ~Has(SubSeq(inside, 1, close - 1), "\\")
                        => out.lexemes[1].text = SubSeq(inside, 1, close - 1)
            /\ \/ mode0 = "lexUnquoted"
               \/ /\ mode0 = "lexStart"
                  /\ Len(line0) >= 2
                  /\ Head(line0) \notin special \cup whitespace \cup {"'", "\"", "~"}
               => /\ out.lexemes[1].tok \in {"String", "SubString"}
                  /\ out.lexemes[1].text = Unescape(line0, word - 1)
                  /\ out.lexemes[1].tok = "SubString" <=>
                        /\ line0 # <<>>
                        /\ word = Len(line0) + 1
                        /\ IsEscape(line0, Len(line0))

\* The line '\'"' was fed: a single-quoted string with an escaped quote and
\* the other kind of quote.
C32_Witness ==
    /\ lines = <<<<"'", "\\", "'", "\"", "'">>>>
    /\ out.lexemes[1] = Lexeme("String", <<"'", "\"">>)

\* ------------------------------------------------ the shape of the tree

\* A Pipeline of the tree has a stage, each stage is a Cmd with a Word, and
\* each Word has a sub-expression.
WellFormedPipeline(s) ==
    /\ s.type = "Pipeline"
    /\ s.Stmts # <<>>
    /\ \A k \in DOMAIN s.Stmts :
          /\ s.Stmts[k].type = "Cmd"
          /\ s.Stmts[k].Argv # <<>>
          /\ \A a \in DOMAIN s.Stmts[k].Argv :
                /\ s.Stmts[k].Argv[a].type = "Word"
                /\ s.Stmts[k].Argv[a].SubExprs # <<>>

\* C33: every Pipeline of a tree the parser produced has at least one
\* stage, every stage is a Cmd with at least one Word, and every Word has at
\* least one sub-expression.
C33_PipelinesAreWellFormed ==
    stmt # Nil =>
        \A k \in DOMAIN stmt.Stmts :
            stmt.Stmts[k].type = "Pipeline" => WellFormedPipeline(stmt.Stmts[k])

\* ---------------------------------------------- statements on one line

\* The line split at every occurrence of the character c.
RECURSIVE SplitAt(_, _)
SplitAt(line, c) ==
    LET at == {k \in DOMAIN line : line[k] = c}
    IN  IF at = {} THEN <<line>>
        ELSE LET n == CHOOSE k \in at : \A j \in at : k <= j
             IN  <<SubSeq(line, 1, n - 1)>> \o SplitAt(SubSeq(line, n + 1, Len(line)), c)

HasField(segment) == Fields(segment) # <<>>

\* The segments of the line between semicolons that hold a command.
Segments(line) == SelectSeq(SplitAt(line, ";"), HasField)

\* C34: a single line of plain commands separated by `;` is parsed without
\* error into one statement per segment that holds a command, in the order
\* of the line, each with the words of its segment; a leading, trailing or
\* doubled `;` adds no statement.
C34_OneStatementPerSegment ==
    (/\ Returned
     /\ Len(lines) = 1
     /\ mode0 = "lexStart"
     /\ \A k \in DOMAIN lines[1] : lines[1][k] \in {"a", " ", ";"})
        => /\ ret = Return(TRUE)
           /\ err = Nil
           /\ stmt # Nil
           /\ Len(stmt.Stmts) = Len(Segments(lines[1]))
           /\ \A k \in DOMAIN stmt.Stmts :
                 ExpandedArgv(StmtList(<<stmt.Stmts[k]>>)) = Fields(Segments(lines[1])[k])

\* ------------------------------------- statements that cannot start

\* The first character of the segment after its leading blanks, or a blank.
FirstOf(segment) ==
    LET rest == TrimLeft(segment, whitespace)
    IN  IF rest = <<>> THEN " " ELSE Head(rest)

\* A statement of the line starts with `|` or `$`.
Offending(line) ==
    \E k \in DOMAIN SplitAt(line, ";") : FirstOf(SplitAt(line, ";")[k]) \in {"|", "$"}

\* C35: when a statement of a single line starts, after optional blanks,
\* with `|` or `$`, Parse returns true for the line and leaves a parser
\* error and no tree, so that no command of the line is there to execute,
\* the statements before the offending one included.
C35_BadStatementRejectsLine ==
    (/\ Returned
     /\ Len(lines) = 1
     /\ mode0 = "lexStart"
     /\ \A k \in DOMAIN lines[1] : lines[1][k] \in {"a", " ", ";", "$", "|"}
     /\ Offending(lines[1]))
        => /\ ret = Return(TRUE)
           /\ err # Nil
           /\ err.type = "parserError"
           /\ stmt = Nil

\* ------------------------------------------------------- a cd that fails

\* The last cd call was one the builtin cannot carry out: more than one
\* argument, `cd -` with OLDPWD unset, or a target that is not a directory
\* the process can change into.
CannotCd ==
    \/ Len(cdlast.args) > 1
    \/ cdlast.args = <<<<"-">>>> /\ cdlast.oldpwd = Unset
    \/ /\ Len(cdlast.args) = 1
       /\ cdlast.args # <<<<"-">>>>
       /\ Lookup(cdlast.cwd, cdlast.args[1]) = NoDir

\* C36: a cd with more than one argument, `cd -` with OLDPWD unset, and a cd
\* to a target the process cannot change into each return an error, and a
\* cd that returns an error leaves the working directory, PWD and OLDPWD as
\* they were before the call.
C36_FailedCdChangesNothing ==
    cdlast # Nil =>
        /\ CannotCd => cdlast.err # Nil
        /\ cdlast.err # Nil
              => /\ cwd = cdlast.cwd
                 /\ env[<<"P", "W", "D">>] = cdlast.pwd
                 /\ env[<<"O", "L", "D", "P", "W", "D">>] = cdlast.oldpwd

\* After a cd to /a and a cd to /c, `cd x` has failed: the working directory
\* is still /c, PWD is /c and OLDPWD is /a.
C36_Witness ==
    /\ cdlast # Nil
    /\ cdlast.args = <<<<"x">>>>
    /\ cdlast.err # Nil
    /\ cwd = <<"c">>
    /\ env[<<"P", "W", "D">>] = <<"/", "c">>
    /\ env[<<"O", "L", "D", "P", "W", "D">>] = <<"/", "a">>

\* ------------------------------------------- the processes of the stages

\* The bytes a pipe buffers before a write to it blocks.
PipeCap == 1

\* The bytes the program seq writes: more than a pipe buffers.
SeqBytes == PipeCap + 1

\* The programs of the stages: seq writes SeqBytes bytes and exits, wc reads
\* its input to the end and exits, true exits at once. Each exits when a
\* write to its output fails.
FlowCmds ==
    { CmdOf(<<<<"s", "e", "q">>>>),
      CmdOf(<<<<"w", "c">>>>),
      CmdOf(<<<<"t", "r", "u", "e">>>>) }

FlowSeqs == UNION {[1..n -> FlowCmds] : n \in 1..MaxStages}

\* argv[0] of stage k
Program(k) == CmdArgv(pstmts[k])[1]

BytesIn(j) == IF j \in DOMAIN fill THEN fill[j] ELSE 0

Written(k) == IF k \in DOMAIN written THEN written[k] ELSE 0

\* No open descriptor of the read end of pipe j is left: VisitPipeline has
\* closed its fromPipe, and the process that got it as cmd.Stdin, if one was
\* started, has exited.
ReadersGone(j) ==
    /\ pipes[j].rclosed
    /\ j + 1 > Len(subshells) \/ subshells[j + 1].pc # "started"

\* No open descriptor of the write end of pipe j is left: the process that
\* got it as cmd.Stdout has exited and the stage's task has closed toPipe.
WritersGone(j) == pipes[j].wclosed

\* cmd.Run() returns for stage k, and the task stores status and err.
Exits(k, code) ==
    /\ statuses' = [statuses EXCEPT ![k] = code]
    /\ errs' = [errs EXCEPT ![k] =
                   IF code = 0 THEN Nil ELSE [type |-> "ExitError", code |-> code]]
    /\ subshells' = [subshells EXCEPT ![k].pc = "visited"]

\* The process of stage k writes a byte to cmd.Stdout: to a pipe with no
\* reader left the write fails and the process ends, killed by SIGPIPE; to
\* a full pipe the write blocks.
StageWrite(k) ==
    /\ k \in 1..Len(subshells)
    /\ subshells[k].pc = "started"
    /\ Program(k) = <<"s", "e", "q">>
    /\ Written(k) < SeqBytes
    /\ IF subshells[k].Stdout = ShellStream
       THEN /\ written' = (k :> Written(k) + 1) @@ written
            /\ UNCHANGED <<fill, statuses, errs, subshells>>
       ELSE IF ReadersGone(subshells[k].Stdout[2])
       THEN /\ Exits(k, 0 - 1)
            /\ UNCHANGED <<fill, written>>
       ELSE /\ BytesIn(subshells[k].Stdout[2]) < PipeCap
            /\ fill' = (subshells[k].Stdout[2] :> BytesIn(subshells[k].Stdout[2]) + 1)
                           @@ fill
            /\ written' = (k :> Written(k) + 1) @@ written
            /\ UNCHANGED <<statuses, errs, subshells>>
    /\ UNCHANGED <<ppc, pstmts, index, pipes, wg, pret>>
    /\ UNCHANGED <<env, cwd, cdn, cdlast, cds, wres>>
    /\ UNCHANGED <<frontVars, replVars, scanVars>>

\* The process of stage k reads from cmd.Stdin: a byte of the pipe, or the
\* end of input when the pipe is empty and has no writer left; the read of
\* an empty pipe with a writer blocks. The shell's own input is at its end.
StageRead(k) ==
    /\ k \in 1..Len(subshells)
    /\ subshells[k].pc = "started"
    /\ Program(k) = <<"w", "c">>
    /\ IF subshells[k].Stdin = ShellStream
       THEN /\ Exits(k, 0)
            /\ UNCHANGED fill
       ELSE IF BytesIn(subshells[k].Stdin[2]) > 0
       THEN /\ fill' = (subshells[k].Stdin[2] :> BytesIn(subshells[k].Stdin[2]) - 1)
                           @@ fill
            /\ UNCHANGED <<statuses, errs, subshells>>
       ELSE /\ WritersGone(subshells[k].Stdin[2])
            /\ Exits(k, 0)
            /\ UNCHANGED fill
    /\ UNCHANGED <<ppc, pstmts, index, pipes, wg, pret>>
    /\ UNCHANGED <<env, cwd, cdn, cdlast, cds, wres, written>>
    /\ UNCHANGED <<frontVars, replVars, scanVars>>

\* The process of stage k exits by itself: true at once, seq when it has
\* written all its bytes.
StageExit(k) ==
    /\ k \in 1..Len(subshells)
    /\ subshells[k].pc = "started"
    /\ \/ Program(k) = <<"t", "r", "u", "e">>
       \/ Program(k) = <<"s", "e", "q">> /\ Written(k) = SeqBytes
    /\ Exits(k, 0)
    /\ UNCHANGED <<ppc, pstmts, index, pipes, wg, pret>>
    /\ UNCHANGED <<env, cwd, cdn, cdlast, cds, wres, fill, written>>
    /\ UNCHANGED <<frontVars, replVars, scanVars>>

FlowNext ==
    \/ \E stmts \in FlowSeqs : VisitPipeline(stmts)
    \/ \E pipeOk \in BOOLEAN : PipelineLoop(pipeOk)
    \/ \E k \in 1..MaxStages : StageWrite(k)
    \/ \E k \in 1..MaxStages : StageRead(k)
    \/ \E k \in 1..MaxStages : StageExit(k)
    \/ \E k \in 1..MaxStages : StageDone(k)
    \/ PipelineWait

FlowSpec == Init /\ [][FlowNext]_vars

\* VisitPipeline and its stage tasks are goroutines the scheduler runs, and
\* the processes are run by the kernel: none that can take a step is held
\* back forever.
FlowFairSpec ==
    /\ FlowSpec
    /\ WF_vars(\E pipeOk \in BOOLEAN : PipelineLoop(pipeOk))
    /\ \A k \in 1..MaxStages :
          /\ WF_vars(StageWrite(k))
          /\ WF_vars(StageRead(k))
          /\ WF_vars(StageExit(k))
          /\ WF_vars(StageDone(k))
    /\ WF_vars(PipelineWait)

\* C37: VisitPipeline, once called, eventually returns, whatever the stages
\* are, also when a stage exits before it has read all its input.
C37_PipelineReturns == (ppc = "loop") ~> (ppc = "returned")

\* ------------------------------------------------ a pipeline of one stage

\* C38: VisitPipeline of a Pipeline with one stage creates no pipe, runs
\* the stage with the shell's own Stdin, Stdout and Stderr, and returns the
\* status and the error that VisitCmd gives for that stage's Cmd.
C38_OneStageIsTheCmd ==
    (ppc # "idle" /\ Len(pstmts) = 1) =>
        /\ pipes = <<>>
        /\ \A k \in DOMAIN subshells :
              /\ k = 1
              /\ subshells[k].Stdin = ShellStream
              /\ subshells[k].Stdout = ShellStream
              /\ subshells[k].Stderr = ShellStream
        /\ ppc = "returned"
              => /\ Len(subshells) = 1
                 /\ subshells[1].pc = "done"
                 /\ pret = VisitCmd(pstmts[1])

\* VisitPipeline has returned for the one-stage pipeline `false`: status 1
\* and the error of the command.
C38_Witness ==
    /\ ppc = "returned"
    /\ pstmts = <<CmdOf(<<<<"f", "a", "l", "s", "e">>>>)>>
    /\ pipes = <<>>
    /\ pret.status = 1
    /\ pret.err # Nil

\* ------------------------------------------------------------ cd - twice

\* A cd call up to c has succeeded.
RECURSIVE Succeeded(_)
Succeeded(c) == c # Nil /\ (c.err = Nil \/ Succeeded(c.before))

\* The last two cd calls were `cd -`, both succeeded, and a cd had succeeded
\* before them.
TwoCdMinus ==
    /\ cdlast # Nil
    /\ cdlast.args = <<<<"-">>>>
    /\ cdlast.err = Nil
    /\ cdlast.before # Nil
    /\ cdlast.before.args = <<<<"-">>>>
    /\ cdlast.before.err = Nil
    /\ Succeeded(cdlast.before.before)

\* C39: after a cd has succeeded, two successful `cd -` in a row leave the
\* working directory, PWD and OLDPWD as they were before the two.
C39_CdMinusTwiceRestores ==
    TwoCdMinus =>
        /\ cwd = cdlast.before.cwd
        /\ env[<<"P", "W", "D">>] = cdlast.before.pwd
        /\ env[<<"O", "L", "D", "P", "W", "D">>] = cdlast.before.oldpwd

\* ------------------------------------------------ the scanner of a script

\* The bytes a reader holds at most.
MaxBytes == 4

\* bufio.MaxScanTokenSize, scaled down: the bytes the scanner's buffer holds.
MaxTokenSize == 3

\* The readLine calls of a behaviour: enough for every line, the error and
\* two calls after it.
MaxReads == MaxBytes + 3

ScanChars == {"a", "\r", "\n"}

ioEOF == [type |-> "io.EOF"]

ErrTooLong == [type |-> "bufio.ErrTooLong"]

\* The readers: the bytes a reader returns, and what its Read returns after
\* them, io.EOF or an error of its own.
ScanReaders ==
    [data : SeqsOver(ScanChars, MaxBytes), err : {ioEOF, errorsNew("mock error")}]

\* bufio's dropCR
dropCR(data) ==
    IF data # <<>> /\ data[Len(data)] = "\r" THEN SubSeq(data, 1, Len(data) - 1)
    ELSE data

\* The position of the first newline of data, or 0.
IndexByte(data) ==
    LET at == {k \in DOMAIN data : data[k] = "\n"}
    IN  IF at = {} THEN 0 ELSE CHOOSE k \in at : \A j \in at : k <= j

\* bufio.Scanner.Scan with bufio.ScanLines on reader r: whether there is a
\* token, the token, the scanner's Err(), and what is left of the reader. A
\* line is a token when its newline is among the first MaxTokenSize bytes;
\* what is left at the end of the reader, or at its error, is a token when
\* it is shorter than the buffer; Err() is nil at io.EOF.
Scan(r) ==
    LET p == IndexByte(r.data)
    IN  IF p # 0 /\ p <= MaxTokenSize
        THEN [ok |-> TRUE, text |-> dropCR(SubSeq(r.data, 1, p - 1)), err |-> Nil,
              r |-> [r EXCEPT !.data = SubSeq(r.data, p + 1, Len(r.data))]]
        ELSE IF Len(r.data) >= MaxTokenSize
        THEN [ok |-> FALSE, text |-> <<>>, err |-> ErrTooLong, r |-> r]
        ELSE IF r.data # <<>>
        THEN [ok |-> TRUE, text |-> dropCR(r.data), err |-> Nil,
              r |-> [r EXCEPT !.data = <<>>]]
        ELSE [ok |-> FALSE, text |-> <<>>,
              err |-> IF r.err = ioEOF THEN Nil ELSE r.err, r |-> r]

newNonInteractive(r) ==
    /\ noninteractive = Nil
    /\ noninteractive' = [r |-> r, s |-> [type |-> "bufio.Scanner"], r0 |-> r]
    /\ UNCHANGED reads
    /\ UNCHANGED <<frontVars, replVars, pipeVars, procVars>>

\* What the loop of repl does with the line and the error of a readLine
\* call: at io.EOF it ends, and another error it writes to std.err.
ReplRead(result) ==
    IF rpc # "read" THEN UNCHANGED <<rpc, stderr>>
    ELSE IF result.err = ioEOF THEN rpc' = "returned" /\ UNCHANGED stderr
    ELSE IF result.err # Nil
    THEN stderr' = Append(stderr, <<"mesh: ", result.err>>) /\ UNCHANGED rpc
    ELSE UNCHANGED <<rpc, stderr>>

\* A variant of readLine that keeps the scanner after Scan has failed.
readLineKeepsScanner ==
    /\ noninteractive # Nil
    /\ Len(reads) < MaxReads
    /\ LET scanned == Scan(noninteractive.r)
           result  == IF noninteractive.s = Nil THEN [line |-> <<>>, err |-> ioEOF]
                      ELSE IF ~scanned.ok
                      THEN [line |-> <<>>,
                            err |-> IF scanned.err # Nil THEN scanned.err ELSE ioEOF]
                      ELSE [line |-> scanned.text, err |-> Nil]
       IN  /\ noninteractive' =
                 IF noninteractive.s = Nil THEN noninteractive
                 ELSE [noninteractive EXCEPT !.r = scanned.r]
           /\ reads' = Append(reads, result)
           /\ ReplRead(result)
    /\ UNCHANGED <<nread, rstmt, sno, ran, vstatus, verr, status>>
    /\ UNCHANGED <<frontVars, pipeVars, procVars>>

\* noninteractive.readLine, called by the loop of repl while it runs and by
\* a test after it.
readLine ==
    /\ noninteractive # Nil
    /\ Len(reads) < MaxReads
    /\ LET scanned == Scan(noninteractive.r)
           result  == IF noninteractive.s = Nil THEN [line |-> <<>>, err |-> ioEOF]
                      ELSE IF ~scanned.ok
                      THEN [line |-> <<>>,
                            err |-> IF scanned.err # Nil THEN scanned.err ELSE ioEOF]
                      ELSE [line |-> scanned.text, err |-> Nil]
       IN  /\ noninteractive' =
                 IF noninteractive.s = Nil THEN noninteractive
                 ELSE IF ~scanned.ok THEN [noninteractive EXCEPT !.s = Nil]
                 ELSE [noninteractive EXCEPT !.r = scanned.r]
           /\ reads' = Append(reads, result)
           /\ ReplRead(result)
    /\ UNCHANGED <<nread, rstmt, sno, ran, vstatus, verr, status>>
    /\ UNCHANGED <<frontVars, pipeVars, procVars>>

ScanNext ==
    \/ \E r \in ScanReaders : newNonInteractive(r)
    \/ readLine

ScanSpec == Init /\ [][ScanNext]_vars

\* The loop of repl calls readLine again as long as it runs.
ScanFairSpec == ScanSpec /\ WF_vars(readLine)

\* The lines of data: what lies before each newline and, when it is not
\* empty, what follows the last one, each without its carriage return.
LinesOf(data) ==
    LET parts == SplitAt(data, "\n")
        whole == IF parts[Len(parts)] = <<>> THEN Front(parts) ELSE parts
    IN  [k \in 1..Len(whole) |-> dropCR(whole[k])]

\* The number of lines at the start of data that fit the scanner's buffer.
RECURSIVE Fitting(_)
Fitting(data) ==
    LET p == IndexByte(data)
    IN  IF p # 0 /\ p <= MaxTokenSize
        THEN 1 + Fitting(SubSeq(data, p + 1, Len(data)))
        ELSE IF p = 0 /\ data # <<>> /\ Len(data) < MaxTokenSize THEN 1
        ELSE 0

\* A line of the reader does not fit the scanner's buffer.
TooLong(r) == Fitting(r.data) < Len(LinesOf(r.data))

\* What the k-th readLine call returns for reader r when the first n of its
\* lines are returned and e is what ends them.
ReadAt(r, k, n, e) ==
    IF k <= n THEN [line |-> LinesOf(r.data)[k], err |-> Nil]
    ELSE IF k = n + 1 /\ e # ioEOF THEN [line |-> <<>>, err |-> e]
    ELSE [line |-> <<>>, err |-> ioEOF]

\* The loop of repl, started on a scanner, ends.
LoopEnds == (noninteractive # Nil) ~> (rpc = "returned")

\* C40: the readLine calls return the lines of the reader in order, without
\* line terminators, up to the first line that does not fit the scanner's
\* buffer; the next call returns bufio.ErrTooLong when there is such a line,
\* else the reader's error when it ended with one, else io.EOF, and every
\* call after that returns io.EOF; the loop of repl ends.
C40_ReadLineThenEOF ==
    /\ [](noninteractive # Nil =>
             \A k \in DOMAIN reads :
                 reads[k] = ReadAt(noninteractive.r0, k, Fitting(noninteractive.r0.data),
                                   IF TooLong(noninteractive.r0) THEN ErrTooLong
                                   ELSE noninteractive.r0.err))
    /\ LoopEnds

\* The reader held a, CR, LF, a and then failed: the calls have returned a,
\* a, the error and io.EOF, and the loop of repl has ended.
C40_Witness ==
    /\ noninteractive # Nil
    /\ noninteractive.r0 = [data |-> <<"a", "\r", "\n", "a">>, err |-> errorsNew("mock error")]
    /\ reads = << [line |-> <<"a">>, err |-> Nil], [line |-> <<"a">>, err |-> Nil],
                  [line |-> <<>>, err |-> errorsNew("mock error")],
                  [line |-> <<>>, err |-> ioEOF] >>
    /\ rpc = "returned"

\* C40 as stated: the calls return all the lines of the reader in order,
\* then the reader's error when it ended with one, and io.EOF from then on;
\* the loop of repl ends.
C40_AllLinesThenEOF ==
    /\ [](noninteractive # Nil =>
             \A k \in DOMAIN reads :
                 reads[k] = ReadAt(noninteractive.r0, k,
                                   Len(LinesOf(noninteractive.r0.data)),
                                   noninteractive.r0.err))
    /\ LoopEnds
====
